---------------------------- MODULE Spec2Model ----------------------------
(***************************************************************************)
(* Chained-fixups parser of go-macho (package fixupchains).                *)
(*                                                                         *)
(* The model follows DyldChainedFixups.Parse step by step: ParseStarts and *)
(* parseImports, the loop over segments and pages, the overflow loop of a  *)
(* MULTI page and the slot loop of walkDcFixupChain.  The payload (header, *)
(* starts table, imports) is an input fixed by Init; the image bytes are   *)
(* an input that is revealed as the walker reads them and, once revealed,  *)
(* never change.                                                           *)
(*                                                                         *)
(* A raw slot is kept as its value bytes, least significant first (TLC's   *)
(* integers are 32 bits wide); every field is taken out of it bit by bit.  *)
(***************************************************************************)
EXTENDS Integers, Sequences, FiniteSets, TLC

(***************************************************************************)
(* Bounds of the model.                                                    *)
(***************************************************************************)
\* Size of the image in bytes: 16 KiB plus five 16-byte pages, so that a
\* page start carrying the LAST bit (0x4000) can still be read as an offset.
ImageSize == 16464
\* The image is zero except in the first MaxSlots slots that Parse reads.
MaxSlots == 2

(***************************************************************************)
(* Pointer formats and page-start sentinels (fixupchains types).           *)
(***************************************************************************)
DYLD_CHAINED_PTR_ARM64E == 1
DYLD_CHAINED_PTR_64 == 2
DYLD_CHAINED_PTR_32 == 3
DYLD_CHAINED_PTR_32_CACHE == 4
DYLD_CHAINED_PTR_32_FIRMWARE == 5
DYLD_CHAINED_PTR_64_OFFSET == 6
DYLD_CHAINED_PTR_ARM64E_KERNEL == 7
DYLD_CHAINED_PTR_64_KERNEL_CACHE == 8
DYLD_CHAINED_PTR_ARM64E_USERLAND == 9
DYLD_CHAINED_PTR_ARM64E_FIRMWARE == 10
DYLD_CHAINED_PTR_X86_64_KERNEL_CACHE == 11
DYLD_CHAINED_PTR_ARM64E_USERLAND24 == 12

DYLD_CHAINED_PTR_START_NONE == 65535
DYLD_CHAINED_PTR_START_MULTI == 32768
DYLD_CHAINED_PTR_START_LAST == 16384

DC_IMPORT == 1
DC_IMPORT_ADDEND == 2
DC_IMPORT_ADDEND64 == 3

KnownFormats == 1..12
\* One value outside the closed enumeration.
UnknownFormats == {13}
Formats32 ==
    {DYLD_CHAINED_PTR_32, DYLD_CHAINED_PTR_32_CACHE, DYLD_CHAINED_PTR_32_FIRMWARE}
FormatsGeneric64 ==
    {DYLD_CHAINED_PTR_64, DYLD_CHAINED_PTR_64_OFFSET,
     DYLD_CHAINED_PTR_64_KERNEL_CACHE, DYLD_CHAINED_PTR_X86_64_KERNEL_CACHE}
FormatsArm64e ==
    {DYLD_CHAINED_PTR_ARM64E, DYLD_CHAINED_PTR_ARM64E_KERNEL,
     DYLD_CHAINED_PTR_ARM64E_USERLAND, DYLD_CHAINED_PTR_ARM64E_FIRMWARE,
     DYLD_CHAINED_PTR_ARM64E_USERLAND24}

(***************************************************************************)
(* Bit arithmetic on small naturals and on raw words.                      *)
(***************************************************************************)
RECURSIVE Pow2(_)
Pow2(n) == IF n = 0 THEN 1 ELSE 2 * Pow2(n - 1)

\* Bit i of the natural n.
BitOfNat(n, i) == (n \div Pow2(i)) % 2

\* Bit i of a raw word (a sequence of value bytes, least significant first).
BitOfWord(w, i) == BitOfNat(w[(i \div 8) + 1], i % 8)

\* types.ExtractBits(x, start, nbits): the nbits-wide field of x at bit start.
RECURSIVE ExtractBits(_, _, _)
ExtractBits(w, start, nbits) ==
    IF nbits = 0 THEN 0
    ELSE BitOfWord(w, start) + 2 * ExtractBits(w, start + 1, nbits - 1)

\* uint16 bitwise and / and-not with a one-bit mask m (a power of two).
HasBit(v, m) == (v \div m) % 2 = 1
ClearBit(v, m) == IF HasBit(v, m) THEN v - m ELSE v

(***************************************************************************)
(* The pointer-format codec.                                               *)
(***************************************************************************)
Generic32IsBind(w) == ExtractBits(w, 31, 1) # 0
Generic32Next(w) == ExtractBits(w, 26, 5)
Generic64IsBind(w) == ExtractBits(w, 63, 1) # 0
Generic64Next(w) == ExtractBits(w, 51, 12)
DcpArm64eIsBind(w) == ExtractBits(w, 62, 1) # 0
DcpArm64eIsAuth(w) == ExtractBits(w, 63, 1) # 0
DcpArm64eNext(w) == ExtractBits(w, 51, 11)

\* stride(format): the byte distance one unit of next stands for.
stride(pointerFormat) ==
    CASE pointerFormat \in {DYLD_CHAINED_PTR_ARM64E,
                            DYLD_CHAINED_PTR_ARM64E_USERLAND,
                            DYLD_CHAINED_PTR_ARM64E_USERLAND24} -> 8
      [] pointerFormat = DYLD_CHAINED_PTR_X86_64_KERNEL_CACHE -> 1
      [] OTHER -> 4

\* Width in bytes of the slot the walker reads for a format: the 32-bit
\* formats are read into dcPtr (uint32), all others into dcPtr64 (uint64).
SlotWidth(pointerFormat) == IF pointerFormat \in Formats32 THEN 4 ELSE 8

\* The next field as the walker decodes it for each format.
NextField(pointerFormat, w) ==
    CASE pointerFormat \in Formats32 -> Generic32Next(w)
      [] pointerFormat \in FormatsGeneric64 -> Generic64Next(w)
      [] OTHER -> DcpArm64eNext(w)

\* Ordinal() of each bind record.
BindOrdinal(kind, w) ==
    CASE kind = "DyldChainedPtr32Bind" -> ExtractBits(w, 0, 20)
      [] kind = "DyldChainedPtr64Bind" -> ExtractBits(w, 0, 24)
      [] kind \in {"DyldChainedPtrArm64eBind", "DyldChainedPtrArm64eAuthBind"} ->
            ExtractBits(w, 0, 16)
      [] kind \in {"DyldChainedPtrArm64eBind24", "DyldChainedPtrArm64eAuthBind24"} ->
            ExtractBits(w, 0, 24)

BindKinds ==
    {"DyldChainedPtr32Bind", "DyldChainedPtr64Bind", "DyldChainedPtrArm64eBind",
     "DyldChainedPtrArm64eAuthBind", "DyldChainedPtrArm64eBind24",
     "DyldChainedPtrArm64eAuthBind24"}

\* The record type the walker builds for a slot of each format.
FixupKind(pointerFormat, w) ==
    CASE pointerFormat = DYLD_CHAINED_PTR_32 ->
            IF Generic32IsBind(w) THEN "DyldChainedPtr32Bind"
            ELSE "DyldChainedPtr32Rebase"
      [] pointerFormat = DYLD_CHAINED_PTR_32_CACHE -> "DyldChainedPtr32CacheRebase"
      [] pointerFormat = DYLD_CHAINED_PTR_32_FIRMWARE -> "DyldChainedPtr32FirmwareRebase"
      [] pointerFormat = DYLD_CHAINED_PTR_64 ->
            IF Generic64IsBind(w) THEN "DyldChainedPtr64Bind"
            ELSE "DyldChainedPtr64Rebase"
      [] pointerFormat = DYLD_CHAINED_PTR_64_OFFSET -> "DyldChainedPtr64RebaseOffset"
      [] pointerFormat \in {DYLD_CHAINED_PTR_64_KERNEL_CACHE,
                            DYLD_CHAINED_PTR_X86_64_KERNEL_CACHE} ->
            "DyldChainedPtr64KernelCacheRebase"
      [] pointerFormat \in {DYLD_CHAINED_PTR_ARM64E_KERNEL,
                            DYLD_CHAINED_PTR_ARM64E_FIRMWARE,
                            DYLD_CHAINED_PTR_ARM64E,
                            DYLD_CHAINED_PTR_ARM64E_USERLAND} ->
            IF ~DcpArm64eIsBind(w) /\ ~DcpArm64eIsAuth(w)
              THEN "DyldChainedPtrArm64eRebase"
            ELSE IF DcpArm64eIsBind(w) /\ ~DcpArm64eIsAuth(w)
              THEN "DyldChainedPtrArm64eBind"
            ELSE IF ~DcpArm64eIsBind(w) /\ DcpArm64eIsAuth(w)
              THEN "DyldChainedPtrArm64eAuthRebase"
            ELSE "DyldChainedPtrArm64eAuthBind"
      [] pointerFormat = DYLD_CHAINED_PTR_ARM64E_USERLAND24 ->
            IF ~DcpArm64eIsBind(w) /\ ~DcpArm64eIsAuth(w)
              THEN "DyldChainedPtrArm64eRebase24"
            ELSE IF DcpArm64eIsBind(w) /\ DcpArm64eIsAuth(w)
              THEN "DyldChainedPtrArm64eAuthBind24"
            ELSE IF ~DcpArm64eIsBind(w) /\ DcpArm64eIsAuth(w)
              THEN "DyldChainedPtrArm64eAuthRebase24"
            ELSE "DyldChainedPtrArm64eBind24"

(***************************************************************************)
(* Bytes of the image and the byte order.                                  *)
(***************************************************************************)
ByteOrders == {"LittleEndian", "BigEndian"}

\* A byte slice with its elements in place.
Bytes(s) == SubSeq(s, 1, Len(s))

ReverseSeq(s) == Bytes([k \in 1..Len(s) |-> s[Len(s) + 1 - k]])

\* binary.Read / ByteOrder.PutUintNN: file bytes <-> value bytes.
DecodeWord(order, fileBytes) ==
    IF order = "LittleEndian" THEN fileBytes ELSE ReverseSeq(fileBytes)
EncodeWord(order, w) ==
    IF order = "LittleEndian" THEN w ELSE ReverseSeq(w)

(***************************************************************************)
(* The slots an image may hold.  A slot is laid out from its fields by the *)
(* bit layout of its format family; the walker only ever sees the bytes.   *)
(***************************************************************************)
\* low: the target or ordinal bits; ordinal 5 names no import (two imports).
\* The first is the all-zero slot: a rebase that ends its chain.
SlotFields ==
    { [low |-> 0, next |-> 0, bind |-> 0, auth |-> 0],
      [low |-> 2, next |-> 1, bind |-> 0, auth |-> 0],
      [low |-> 1, next |-> 0, bind |-> 1, auth |-> 0],
      [low |-> 0, next |-> 1, bind |-> 1, auth |-> 0],
      [low |-> 5, next |-> 0, bind |-> 1, auth |-> 0],
      [low |-> 3, next |-> 0, bind |-> 0, auth |-> 1],
      [low |-> 1, next |-> 2, bind |-> 1, auth |-> 1] }

\* Bit i of the slot with fields f in the layout of the format.
SlotBit(pointerFormat, f, i) ==
    LET nextAt == IF pointerFormat \in Formats32 THEN 26 ELSE 51
        bindAt == CASE pointerFormat \in Formats32 -> 31
                    [] pointerFormat \in FormatsGeneric64 -> 63
                    [] OTHER -> 62
    IN  IF i < 16 THEN BitOfNat(f.low, i)
        ELSE IF i = bindAt THEN f.bind
        ELSE IF i >= nextAt /\ i < nextAt + 4 THEN BitOfNat(f.next, i - nextAt)
        ELSE IF i = 63 /\ pointerFormat \in FormatsArm64e THEN f.auth
        ELSE 0

PackSlot(pointerFormat, f) ==
    Bytes([k \in 1..SlotWidth(pointerFormat) |->
        SlotBit(pointerFormat, f, 8 * (k - 1)) +
        2 * SlotBit(pointerFormat, f, 8 * (k - 1) + 1) +
        4 * SlotBit(pointerFormat, f, 8 * (k - 1) + 2) +
        8 * SlotBit(pointerFormat, f, 8 * (k - 1) + 3) +
        16 * SlotBit(pointerFormat, f, 8 * (k - 1) + 4) +
        32 * SlotBit(pointerFormat, f, 8 * (k - 1) + 5) +
        64 * SlotBit(pointerFormat, f, 8 * (k - 1) + 6) +
        128 * SlotBit(pointerFormat, f, 8 * (k - 1) + 7)])

\* The slot values an image may hold where a segment of this format reads.
SlotWords(pointerFormat) ==
    {PackSlot(pointerFormat, f) :
        f \in IF pointerFormat \in FormatsArm64e
              THEN SlotFields ELSE {g \in SlotFields : g.auth = 0}}

(***************************************************************************)
(* The payload: what ParseStarts and parseImports decode.                  *)
(***************************************************************************)
NONE == DYLD_CHAINED_PTR_START_NONE
MULTI == DYLD_CHAINED_PTR_START_MULTI
LAST == DYLD_CHAINED_PTR_START_LAST

\* dyld_chained_starts_in_segment as found in the payload; PageStarts holds
\* the PageCount 16-bit values that follow it.
SegInfo(format, offset, pageStarts) ==
    [ Present |-> TRUE, PointerFormat |-> format, SegmentOffset |-> offset,
      PageSize |-> 16, Size |-> 16 * Len(pageStarts),
      PageCount |-> Len(pageStarts), PageStarts |-> pageStarts ]

\* A segment whose seg_info_offset is 0.
AbsentSeg ==
    [ Present |-> FALSE, PointerFormat |-> 0, SegmentOffset |-> 0,
      PageSize |-> 0, Size |-> 0, PageCount |-> 0, PageStarts |-> <<>> ]

PageStartsChoices ==
    { <<>>, <<NONE>>, <<0>>, <<2>>, <<0, 0>>, <<NONE, 8>>,
      <<LAST + 64>>, <<0, LAST + 48>>,
      <<MULTI + 1>>, <<MULTI + 1, LAST + 16>>, <<MULTI + 1, 0, LAST + 16>>,
      <<MULTI + 1, 0>>, <<MULTI + 2, 16, LAST + 32, 48>> }

\* The imports table and the symbol pool.  NameOffset is the position of the
\* name in the pool, counted in strings.
ImportTables ==
    { [ ImportsFormat |-> DC_IMPORT, ImportsReadable |-> TRUE,
        Records |-> << [NameOffset |-> 1], [NameOffset |-> 2] >>,
        Symbols |-> << [Name |-> "_malloc", Terminated |-> TRUE],
                       [Name |-> "_free", Terminated |-> TRUE] >> ] }

\* Where the payload ends too early for ParseStarts, if anywhere.
NoTruncation == [at |-> "none", seg |-> 0]

Payload(table, seg1, seg2) ==
    [ Trunc |-> NoTruncation, Imports |-> table, Segs |-> << seg1, seg2 >> ]

\* Every pointer format, over a few page-start tables, in one segment.
PayloadsEveryFormat ==
    { Payload(t, SegInfo(f, 8, ps), AbsentSeg) :
        t \in ImportTables, f \in KnownFormats \cup UnknownFormats,
        ps \in { <<0>>, <<2>>, <<0, LAST + 48>> } }

\* Every page-start table, for one format of each family, followed by a
\* second segment of the same or of an unknown format, or by none.
PayloadsEveryStarts ==
    UNION { { Payload(t, SegInfo(f, 8, ps), s2) :
                t \in ImportTables, ps \in PageStartsChoices,
                s2 \in {AbsentSeg} \cup
                       {SegInfo(g, 128, <<0>>) : g \in {f} \cup UnknownFormats} } :
            f \in {DYLD_CHAINED_PTR_32, DYLD_CHAINED_PTR_64, DYLD_CHAINED_PTR_ARM64E} }

\* Payloads that end before ParseStarts has read the starts.
PayloadsTruncated ==
    { [ Trunc |-> tr, Imports |-> t,
        Segs |-> << SegInfo(DYLD_CHAINED_PTR_64, 8, <<0>>), AbsentSeg >> ] :
        t \in ImportTables,
        tr \in { [at |-> "header", seg |-> 0], [at |-> "offsets", seg |-> 0],
                 [at |-> "info", seg |-> 1], [at |-> "pages", seg |-> 1] } }

\* Imports tables that parseImports does not read to the end: a second name
\* that no NUL ends within the payload, and an imports_format that is none
\* of DC_IMPORT, DC_IMPORT_ADDEND, DC_IMPORT_ADDEND64.
ImportTablesBroken ==
    { [ ImportsFormat |-> DC_IMPORT, ImportsReadable |-> TRUE,
        Records |-> << [NameOffset |-> 1], [NameOffset |-> 2] >>,
        Symbols |-> << [Name |-> "_malloc", Terminated |-> TRUE],
                       [Name |-> "_fre", Terminated |-> FALSE] >> ],
      [ ImportsFormat |-> DC_IMPORT_ADDEND64 + 1, ImportsReadable |-> TRUE,
        Records |-> << [NameOffset |-> 1], [NameOffset |-> 2] >>,
        Symbols |-> << [Name |-> "_malloc", Terminated |-> TRUE],
                       [Name |-> "_free", Terminated |-> TRUE] >> ] }

PayloadsBrokenImports ==
    { Payload(t, SegInfo(DYLD_CHAINED_PTR_64, 8, ps), AbsentSeg) :
        t \in ImportTablesBroken, ps \in { <<NONE>>, <<0>> } }

\* Segments whose pages start no chain, of a known and of an unknown pointer
\* format, with a page size that is and that is not a power of two.
PayloadsNoChains ==
    { Payload(t, [SegInfo(f, 8, <<NONE>>) EXCEPT !.PageSize = sz, !.Size = sz],
              AbsentSeg) :
        t \in ImportTables, f \in {DYLD_CHAINED_PTR_64} \cup UnknownFormats,
        sz \in {16, 24} }

\* Overflow sequences with an entry that carries the bit 0x8000 beside its
\* offset 16: as the last entry, and before an entry with LAST.
PayloadsOverflowBits ==
    { Payload(t, SegInfo(DYLD_CHAINED_PTR_64, 8, ps), AbsentSeg) :
        t \in ImportTables,
        ps \in { << MULTI + 1, MULTI + LAST + 16 >>,
                 << MULTI + 1, MULTI + 16, LAST >> } }

(***************************************************************************)
(* State.                                                                  *)
(***************************************************************************)
VARIABLES
    payload,        \* dcf.r: the load-command payload (input)
    bo,             \* dcf.bo
    image,          \* dcf.sr: the image bytes revealed so far, by file offset
    chosen,         \* reads so far that revealed bytes of the image
    Starts,         \* dcf.Starts (with each segment's Fixups)
    startsNil,      \* dcf.Starts == nil
    Imports,        \* dcf.Imports
    pc,             \* position in Parse
    result,         \* what Parse returned, or how it panicked
    segIdx,         \* Parse: index of the segment (from 1)
    pageIndex,      \* Parse: pageIndex
    overflowIndex,  \* Parse: overflowIndex of a MULTI page
    chainEnd,       \* Parse: chainEnd of the overflow loop
    inMulti,        \* the running walk was called from the overflow loop
    offsetInPage,   \* walkDcFixupChain: offsetInPage
    next,           \* walkDcFixupChain: next
    walkEnd,        \* walkDcFixupChain: chainEnd
    heads,          \* observation: the calls of walkDcFixupChain, in order,
                    \* each with the slots it has read
    lrr,            \* the LazyRebasedReader over the aggregate, if any
    call,           \* observation: the last call of GetImportForPointer,
                    \* RebasePointer or ReadAt, with what it returned
    routines,       \* the goroutines inside ReadAt on the one reader
    inits,          \* observation: the runs of lrr.init, in the order begun
    objcFile,       \* the Objective-C metadata of the file (input)
    objc,           \* f.objc: the classes parsed so far, by address
    stack,          \* the calls of GetObjCClass and of the protocol walkers
                    \* that have not returned, outermost first
    returned        \* what the call that returned last has returned

vars == << payload, bo, image, chosen, Starts, startsNil, Imports, pc, result,
           segIdx, pageIndex, overflowIndex, chainEnd, inMulti, offsetInPage,
           next, walkEnd, heads, lrr, call, routines, inits,
           objcFile, objc, stack, returned >>

inputVars == << payload, bo >>
parseVars == << segIdx, pageIndex, overflowIndex, chainEnd >>
walkVars == << inMulti, offsetInPage, next, walkEnd >>
objcVars == << objcFile, objc, stack, returned >>
useVars == << lrr, call, routines, inits, objcVars >>

\* No reader has been made, and nothing has been called.
NoReader == [made |-> FALSE]
NoCall == [op |-> "none"]
NoRoutines == << >>
NoFile == [made |-> FALSE]
NoRet == [from |-> "none"]

\* GetObjCClass has not been called.
NoObjc ==
    /\ objcFile = NoFile
    /\ objc = << >>
    /\ stack = << >>
    /\ returned = NoRet

\* NewChainedFixups: nothing parsed yet.
Init ==
    /\ \/ payload \in PayloadsEveryFormat /\ bo \in ByteOrders
       \/ payload \in PayloadsEveryStarts \cup PayloadsTruncated
                        \cup PayloadsBrokenImports \cup PayloadsNoChains
                        \cup PayloadsOverflowBits
          /\ bo = "LittleEndian"
    /\ image = <<>>
    /\ chosen = 0
    /\ Starts = <<>>
    /\ startsNil = TRUE
    /\ Imports = <<>>
    /\ pc = "start"
    /\ result = "none"
    /\ segIdx = 1
    /\ pageIndex = 0
    /\ overflowIndex = 0
    /\ chainEnd = FALSE
    /\ inMulti = FALSE
    /\ offsetInPage = 0
    /\ next = 0
    /\ walkEnd = FALSE
    /\ heads = <<>>
    /\ lrr = NoReader
    /\ call = NoCall
    /\ routines = NoRoutines
    /\ inits = << >>
    /\ NoObjc

(***************************************************************************)
(* ParseStarts and parseImports.                                           *)
(***************************************************************************)
\* make([]DyldChainedStarts, segCount): the zero value of an entry.
ZeroStart ==
    [ PointerFormat |-> 0, SegmentOffset |-> 0, PageSize |-> 0, Size |-> 0,
      PageCount |-> 0, PageStarts |-> <<>>, PageStartsNil |-> TRUE,
      Fixups |-> <<>> ]

StartOf(seg) ==
    [ PointerFormat |-> seg.PointerFormat, SegmentOffset |-> seg.SegmentOffset,
      PageSize |-> seg.PageSize, Size |-> seg.Size,
      PageCount |-> seg.PageCount, PageStarts |-> seg.PageStarts,
      PageStartsNil |-> FALSE, Fixups |-> <<>> ]

\* ParseStarts: err, and what dcf.Starts holds when it returns.
ParseStarts(p) ==
    LET n == Len(p.Segs)
        tr == p.Trunc
    IN  IF tr.at = "header"
          THEN [err |-> TRUE, nil |-> TRUE, Starts |-> <<>>]
        ELSE IF tr.at = "offsets"
          THEN [err |-> TRUE, nil |-> FALSE, Starts |-> [i \in 1..n |-> ZeroStart]]
        ELSE [ err |-> tr.at # "none", nil |-> FALSE,
               Starts |-> [i \in 1..n |->
                  IF ~p.Segs[i].Present THEN ZeroStart
                  ELSE IF tr.at = "none" \/ i < tr.seg THEN StartOf(p.Segs[i])
                  ELSE IF i = tr.seg /\ tr.at = "pages"
                    THEN [StartOf(p.Segs[i]) EXCEPT
                            !.PageStarts = [k \in 1..p.Segs[i].PageCount |-> 0]]
                  ELSE ZeroStart] ]

\* The loop of parseImports over the records: it stops, with the error that
\* Parse drops, at the first name that is not NUL-terminated in the pool.
RECURSIVE ReadImportNames(_, _, _)
ReadImportNames(tbl, recs, i) ==
    IF i > Len(recs) THEN <<>>
    ELSE IF recs[i].NameOffset \notin DOMAIN tbl.Symbols THEN <<>>
    ELSE IF ~tbl.Symbols[recs[i].NameOffset].Terminated THEN <<>>
    ELSE << [ Name |-> tbl.Symbols[recs[i].NameOffset].Name, Import |-> recs[i] ] >>
         \o ReadImportNames(tbl, recs, i + 1)

\* parseImports: dcf.Imports when it returns (Parse ignores its error).
parseImports(tbl, imports) ==
    LET recs == IF tbl.ImportsFormat \in {DC_IMPORT, DC_IMPORT_ADDEND, DC_IMPORT_ADDEND64}
                   /\ tbl.ImportsReadable
                THEN tbl.Records ELSE <<>>
    IN  imports \o ReadImportNames(tbl, recs, 1)

(***************************************************************************)
(* Helpers of the walker.                                                  *)
(***************************************************************************)
\* Mutant: the overflow loop never sees the LAST bit.
OverflowChainEndNever(entry) == FALSE

\* chainEnd = (start.PageStarts[overflowIndex]&DYLD_CHAINED_PTR_START_LAST != 0)
OverflowChainEnd(entry) == HasBit(entry, DYLD_CHAINED_PTR_START_LAST)

\* offsetInPage = (start.PageStarts[overflowIndex] & ^DYLD_CHAINED_PTR_START_LAST)
OverflowOffset(entry) == ClearBit(entry, DYLD_CHAINED_PTR_START_LAST)

\* fixupLocation := pageContentStart + uint64(offsetInPage) + next
FixupLocation(st, page, offset, nxt) ==
    st.SegmentOffset + page * st.PageSize + offset + nxt

\* Mutant: the distance from the chain head is the last next alone.
AdvanceNextFromHead(nxt, pointerFormat, w) ==
    NextField(pointerFormat, w) * stride(pointerFormat)

\* next += Next(dcPtr) * stride(pointerFormat)
AdvanceNext(nxt, pointerFormat, w) ==
    nxt + NextField(pointerFormat, w) * stride(pointerFormat)

\* Mutant: the chain ends after its first slot.
ChainEndsAtOnce(pointerFormat, w) == TRUE

\* if Next(dcPtr) == 0 { chainEnd = true }
ChainEnds(pointerFormat, w) == NextField(pointerFormat, w) = 0

\* Mutant: every bind is given the name of the first import.
ImportNameOfFirst(imports, ordinal) == imports[1].Name

\* bind.Import = dcf.Imports[bind.Ordinal()].Name
ImportName(imports, ordinal) == imports[ordinal + 1].Name

\* The record appended for the slot w read at loc.
MakeFixup(pointerFormat, w, loc, imports) ==
    LET kind == FixupKind(pointerFormat, w)
    IN  [ kind |-> kind, Pointer |-> w, Fixup |-> loc,
          Import |-> IF kind \in BindKinds
                     THEN ImportName(imports, BindOrdinal(kind, w)) ELSE "" ]

\* Mutant: the record is put in front of the list.
PrependFixup(starts, seg, fixup) ==
    [starts EXCEPT ![seg].Fixups = << fixup >> \o @]

\* dcf.Starts[segIdx].Fixups = append(dcf.Starts[segIdx].Fixups, fixup)
AppendFixup(starts, seg, fixup) ==
    [starts EXCEPT ![seg].Fixups = Append(@, fixup)]

\* fmt.Errorf("unknown pointer format %#04X", pointerFormat): the value in
\* upper-case hexadecimal after 0X, filled with zeros to four characters.
HexDigit(d) ==
    << "0", "1", "2", "3", "4", "5", "6", "7", "8", "9",
       "A", "B", "C", "D", "E", "F" >>[d + 1]
RECURSIVE Hex(_)
Hex(n) == IF n < 16 THEN HexDigit(n) ELSE Hex(n \div 16) \o HexDigit(n % 16)

\* Mutant: the message does not name the format.
UnknownFormatErrorBare(pointerFormat) == "unknown pointer format"

UnknownFormatError(pointerFormat) ==
    "unknown pointer format 0X" \o (IF pointerFormat < 16 THEN "0" ELSE "")
        \o Hex(pointerFormat)

\* The file bytes a read at loc may return: revealed bytes stay, the others
\* are those of some slot of the format, and zero after MaxSlots such reads.
ReadChoices(pointerFormat, loc) ==
    { [k \in 1..SlotWidth(pointerFormat) |->
          IF (loc + k - 1) \in DOMAIN image THEN image[loc + k - 1]
          ELSE IF chosen < MaxSlots THEN EncodeWord(bo, v)[k]
          ELSE 0] : v \in SlotWords(pointerFormat) }

\* Whether a read of n bytes at loc reveals a byte.
Reveals(loc, n) == \E o \in loc..(loc + n - 1) : o \notin DOMAIN image

Reveal(loc, fileBytes) ==
    [o \in (DOMAIN image) \cup (loc..(loc + Len(fileBytes) - 1)) |->
        IF o \in DOMAIN image THEN image[o] ELSE fileBytes[o - loc + 1]]

(***************************************************************************)
(* Parse.                                                                  *)
(***************************************************************************)
CurStart == Starts[segIdx]

\* Parse, lines 26-30: ParseStarts fails and Parse returns its error.
ParseStartsFails ==
    /\ pc = "start"
    /\ startsNil
    /\ ParseStarts(payload).err
    /\ Starts' = ParseStarts(payload).Starts
    /\ startsNil' = ParseStarts(payload).nil
    /\ pc' = "error"
    /\ result' = "ParseStarts: unexpected EOF"
    /\ UNCHANGED << inputVars, useVars, image, chosen, Imports, parseVars, walkVars, heads >>

\* Parse, lines 26-33: ParseStarts (when Starts is nil), then parseImports.
ParseBegin ==
    /\ pc = "start"
    /\ ~(startsNil /\ ParseStarts(payload).err)
    /\ Starts' = IF startsNil THEN ParseStarts(payload).Starts ELSE Starts
    /\ startsNil' = FALSE
    /\ Imports' = parseImports(payload.Imports, Imports)
    /\ pc' = "page"
    /\ segIdx' = 1
    /\ pageIndex' = 0
    /\ UNCHANGED << inputVars, useVars, image, chosen, result, overflowIndex, chainEnd,
                    walkVars, heads >>

\* Parse, line 70: the loop over the segments is over.
ParseReturn ==
    /\ pc = "page"
    /\ segIdx > Len(Starts)
    /\ pc' = "done"
    /\ result' = "ok"
    /\ UNCHANGED << inputVars, useVars, image, chosen, Starts, startsNil, Imports,
                    parseVars, walkVars, heads >>

\* Parse, lines 37-41: a segment without page starts, or its last page done.
NextSegment ==
    /\ pc = "page"
    /\ segIdx <= Len(Starts)
    /\ CurStart.PageStartsNil \/ pageIndex >= CurStart.PageCount
    /\ segIdx' = segIdx + 1
    /\ pageIndex' = 0
    /\ UNCHANGED << inputVars, useVars, image, chosen, Starts, startsNil, Imports, pc,
                    result, overflowIndex, chainEnd, walkVars, heads >>

PageHasEntry ==
    /\ pc = "page"
    /\ segIdx <= Len(Starts)
    /\ ~CurStart.PageStartsNil
    /\ pageIndex < CurStart.PageCount

\* Parse, lines 44-46: DYLD_CHAINED_PTR_START_NONE.
SkipPage ==
    /\ PageHasEntry
    /\ CurStart.PageStarts[pageIndex + 1] = DYLD_CHAINED_PTR_START_NONE
    /\ pageIndex' = pageIndex + 1
    /\ UNCHANGED << inputVars, useVars, image, chosen, Starts, startsNil, Imports, pc,
                    result, segIdx, overflowIndex, chainEnd, walkVars, heads >>

\* Parse, lines 48-51: a page with several chain starts.
StartMulti ==
    /\ PageHasEntry
    /\ CurStart.PageStarts[pageIndex + 1] # DYLD_CHAINED_PTR_START_NONE
    /\ HasBit(CurStart.PageStarts[pageIndex + 1], DYLD_CHAINED_PTR_START_MULTI)
    /\ overflowIndex' =
          ClearBit(CurStart.PageStarts[pageIndex + 1], DYLD_CHAINED_PTR_START_MULTI)
    /\ chainEnd' = FALSE
    /\ pc' = "multi"
    /\ UNCHANGED << inputVars, useVars, image, chosen, Starts, startsNil, Imports, result,
                    segIdx, pageIndex, walkVars, heads >>

\* The call walkDcFixupChain(segIdx, pageIndex, offset), made for the entry
\* of page_starts at index entry (from 0).
CallWalk(entry, offset, multi) ==
    /\ pc' = "walk"
    /\ inMulti' = multi
    /\ offsetInPage' = offset
    /\ next' = 0
    /\ walkEnd' = FALSE
    /\ heads' = Append(heads, [ seg |-> segIdx, page |-> pageIndex,
                                entry |-> entry, offset |-> offset,
                                reads |-> <<>> ])

\* Parse, lines 61-65: one chain per page.
StartSingle ==
    /\ PageHasEntry
    /\ CurStart.PageStarts[pageIndex + 1] # DYLD_CHAINED_PTR_START_NONE
    /\ ~HasBit(CurStart.PageStarts[pageIndex + 1], DYLD_CHAINED_PTR_START_MULTI)
    /\ CallWalk(pageIndex, CurStart.PageStarts[pageIndex + 1], FALSE)
    /\ UNCHANGED << inputVars, useVars, image, chosen, Starts, startsNil, Imports, result,
                    parseVars >>

\* Parse, lines 52-55: the next entry of the overflow sequence.
MultiWalk ==
    /\ pc = "multi"
    /\ ~chainEnd
    /\ overflowIndex < Len(CurStart.PageStarts)
    /\ chainEnd' = OverflowChainEnd(CurStart.PageStarts[overflowIndex + 1])
    /\ CallWalk(overflowIndex,
                OverflowOffset(CurStart.PageStarts[overflowIndex + 1]), TRUE)
    /\ UNCHANGED << inputVars, useVars, image, chosen, Starts, startsNil, Imports, result,
                    segIdx, pageIndex, overflowIndex >>

\* Parse, line 53: start.PageStarts[overflowIndex] outside the slice.
MultiIndexPanic ==
    /\ pc = "multi"
    /\ ~chainEnd
    /\ overflowIndex >= Len(CurStart.PageStarts)
    /\ pc' = "panic"
    /\ result' = "panic: page starts index out of range"
    /\ UNCHANGED << inputVars, useVars, image, chosen, Starts, startsNil, Imports,
                    parseVars, walkVars, heads >>

\* Parse, line 52: the overflow loop ends after the entry carrying LAST.
MultiDone ==
    /\ pc = "multi"
    /\ chainEnd
    /\ pc' = "page"
    /\ pageIndex' = pageIndex + 1
    /\ UNCHANGED << inputVars, useVars, image, chosen, Starts, startsNil, Imports, result,
                    segIdx, overflowIndex, chainEnd, walkVars, heads >>

(***************************************************************************)
(* walkDcFixupChain.                                                       *)
(***************************************************************************)
WalkLocation == FixupLocation(CurStart, pageIndex, offsetInPage, next)

\* Lines 416-418: no case of the switch matches the pointer format.
WalkUnknownFormat ==
    /\ pc = "walk"
    /\ ~walkEnd
    /\ CurStart.PointerFormat \notin KnownFormats
    /\ pc' = "error"
    /\ result' = UnknownFormatError(CurStart.PointerFormat)
    /\ UNCHANGED << inputVars, useVars, image, chosen, Starts, startsNil, Imports,
                    parseVars, walkVars, heads >>

\* binary.Read fails: the slot does not lie within the image.
WalkReadError ==
    /\ pc = "walk"
    /\ ~walkEnd
    /\ CurStart.PointerFormat \in KnownFormats
    /\ WalkLocation + SlotWidth(CurStart.PointerFormat) > ImageSize
    /\ pc' = "error"
    /\ result' = "unexpected EOF"
    /\ UNCHANGED << inputVars, useVars, image, chosen, Starts, startsNil, Imports,
                    parseVars, walkVars, heads >>

\* One turn of the loop, lines 203-415: read the slot, build and append its
\* record (a bind indexes dcf.Imports first), decode next.
WalkSlot ==
    /\ pc = "walk"
    /\ ~walkEnd
    /\ CurStart.PointerFormat \in KnownFormats
    /\ WalkLocation + SlotWidth(CurStart.PointerFormat) <= ImageSize
    /\ LET fmt == CurStart.PointerFormat
           loc == WalkLocation
       IN  \E fb \in ReadChoices(fmt, loc) :
             LET w == DecodeWord(bo, fb)
                 kind == FixupKind(fmt, w)
             IN  /\ image' = Reveal(loc, fb)
                 /\ chosen' = IF Reveals(loc, SlotWidth(fmt))
                               THEN chosen + 1 ELSE chosen
                 /\ heads' = [heads EXCEPT ![Len(heads)].reads =
                                  Append(@, [loc |-> loc, word |-> w])]
                 /\ IF kind \in BindKinds /\ BindOrdinal(kind, w) >= Len(Imports)
                      THEN /\ pc' = "panic"
                           /\ result' = "panic: imports index out of range"
                           /\ UNCHANGED << Starts, next, walkEnd >>
                      ELSE /\ Starts' = AppendFixup(Starts, segIdx,
                                                    MakeFixup(fmt, w, loc, Imports))
                           /\ walkEnd' = ChainEnds(fmt, w)
                           /\ next' = AdvanceNext(next, fmt, w)
                           /\ UNCHANGED << pc, result >>
    /\ UNCHANGED << inputVars, useVars, startsNil, Imports, parseVars, inMulti,
                    offsetInPage >>

\* Line 421: the walk returns nil; Parse goes on (lines 58 and 41).
WalkReturn ==
    /\ pc = "walk"
    /\ walkEnd
    /\ IF inMulti
         THEN /\ pc' = "multi"
              /\ overflowIndex' = overflowIndex + 1
              /\ UNCHANGED pageIndex
         ELSE /\ pc' = "page"
              /\ pageIndex' = pageIndex + 1
              /\ UNCHANGED overflowIndex
    /\ UNCHANGED << inputVars, useVars, image, chosen, Starts, startsNil, Imports, result,
                    segIdx, chainEnd, walkVars, heads >>

Next ==
    \/ ParseStartsFails
    \/ ParseBegin
    \/ ParseReturn
    \/ NextSegment
    \/ SkipPage
    \/ StartMulti
    \/ StartSingle
    \/ MultiWalk
    \/ MultiIndexPanic
    \/ MultiDone
    \/ WalkUnknownFormat
    \/ WalkReadError
    \/ WalkSlot
    \/ WalkReturn

Spec == Init /\ [][Next]_vars

(***************************************************************************)
(* What a re-walk from the raw page starts and image bytes finds.          *)
(***************************************************************************)
IsPrefix(a, b) == Len(a) <= Len(b) /\ \A i \in 1..Len(a) : a[i] = b[i]

RECURSIVE OverflowEntries(_, _)
\* The entries idx, idx+1, ... of ps (indices from 0) up to and including
\* the first that carries LAST.
OverflowEntries(ps, idx) ==
    IF idx >= Len(ps) THEN <<>>
    ELSE IF HasBit(ps[idx + 1], LAST) THEN << idx >>
    ELSE << idx >> \o OverflowEntries(ps, idx + 1)

\* The entries of ps that start a chain of page p.
PageHeadEntries(ps, p) ==
    IF ps[p + 1] = NONE THEN <<>>
    ELSE IF HasBit(ps[p + 1], MULTI) THEN OverflowEntries(ps, ps[p + 1] - MULTI)
    ELSE << p >>

RECURSIVE SegmentHeads(_, _, _)
\* The chain heads of segment seg from page p on, as (seg, page, entry).
SegmentHeads(seg, ps, p) ==
    IF p >= Len(ps) THEN <<>>
    ELSE [k \in 1..Len(PageHeadEntries(ps, p)) |->
            [seg |-> seg, page |-> p, entry |-> PageHeadEntries(ps, p)[k]]]
         \o SegmentHeads(seg, ps, p + 1)

RECURSIVE HeadsFromSegment(_)
HeadsFromSegment(seg) ==
    IF seg > Len(Starts) THEN <<>>
    ELSE SegmentHeads(seg, Starts[seg].PageStarts, 0) \o HeadsFromSegment(seg + 1)

\* The in-page offset of a chain head.
HeadOffset(ps, h) ==
    IF HasBit(ps[h.page + 1], MULTI) THEN OverflowOffset(ps[h.entry + 1])
    ELSE ps[h.page + 1]

Revealed(loc, n) ==
    loc + n <= ImageSize /\ \A o \in loc..(loc + n - 1) : o \in DOMAIN image

RECURSIVE ChainSlots(_, _)
\* The slots of the chain that starts at loc, followed through the revealed
\* bytes of the image.
ChainSlots(fmt, loc) ==
    IF fmt \notin KnownFormats \/ ~Revealed(loc, SlotWidth(fmt)) THEN <<>>
    ELSE LET w == DecodeWord(bo, [k \in 1..SlotWidth(fmt) |-> image[loc + k - 1]])
         IN  IF NextField(fmt, w) = 0 THEN << [loc |-> loc, word |-> w] >>
             ELSE << [loc |-> loc, word |-> w] >>
                  \o ChainSlots(fmt, loc + NextField(fmt, w) * stride(fmt))

RECURSIVE SlotsOfHeads(_, _)
SlotsOfHeads(hs, k) ==
    IF k > Len(hs) THEN <<>>
    ELSE LET st == Starts[hs[k].seg]
         IN  ChainSlots(st.PointerFormat,
                        st.SegmentOffset + hs[k].page * st.PageSize
                          + HeadOffset(st.PageStarts, hs[k]))
             \o SlotsOfHeads(hs, k + 1)

\* The slots reachable from the chain heads of segment seg, in walk order.
ReachableSlots(seg) ==
    SlotsOfHeads(SegmentHeads(seg, Starts[seg].PageStarts, 0), 1)

FixupSlots(seg) ==
    [k \in 1..Len(Starts[seg].Fixups) |->
        [loc |-> Starts[seg].Fixups[k].Fixup, word |-> Starts[seg].Fixups[k].Pointer]]

RECURSIVE SlotsRead(_, _)
\* The number of slots read by the walks of segment seg, from walk k on.
SlotsRead(seg, k) ==
    IF k > Len(heads) THEN 0
    ELSE (IF heads[k].seg = seg THEN Len(heads[k].reads) ELSE 0) + SlotsRead(seg, k + 1)

\* The walk heads[k] has come to the end of its chain.
WalkCompleted(k) == k < Len(heads) \/ walkEnd
WalkAborted(k) == k = Len(heads) /\ pc \in {"error", "panic"} /\ ~walkEnd

(***************************************************************************)
(* C1.  The first slot of a chain is read at segment_offset + page_index * *)
(* page_size + offset_in_page, and every later slot at the location of the *)
(* slot before it plus next(word before) * stride(format): the location is *)
(* accumulated from slot to slot.  The record of a slot carries it.        *)
(***************************************************************************)
C1_LocationsAccumulate ==
    \A k \in 1..Len(heads) :
        LET h == heads[k]
            st == Starts[h.seg]
        IN  /\ \A i \in 1..Len(h.reads) :
                  h.reads[i].loc =
                     IF i = 1
                     THEN st.SegmentOffset + h.page * st.PageSize + h.offset
                     ELSE h.reads[i - 1].loc
                          + NextField(st.PointerFormat, h.reads[i - 1].word)
                            * stride(st.PointerFormat)
            /\ k = Len(heads) /\ pc # "panic" =>
                  \A i \in 1..Len(h.reads) :
                      LET f == st.Fixups[Len(st.Fixups) - Len(h.reads) + i]
                      IN  f.Fixup = h.reads[i].loc /\ f.Pointer = h.reads[i].word

\* A chain of three slots in a page that is not the first of its segment.
C1_Witness ==
    \E k \in 1..Len(heads) :
        /\ heads[k].page >= 1
        /\ Len(heads[k].reads) >= 3
        /\ heads[k].reads[3].loc > heads[k].reads[2].loc

(***************************************************************************)
(* C2.  A walk that no error aborts appends one record per slot it reads,  *)
(* the last slot included; it goes on after a slot whose next is not 0 and *)
(* returns after the first slot whose next is 0.  After a successful Parse *)
(* a segment has as many fixups as slots are reachable from its heads.     *)
(***************************************************************************)
C2_OneFixupPerSlot ==
    /\ \A seg \in 1..Len(Starts) :
          /\ Len(Starts[seg].Fixups) =
                SlotsRead(seg, 1)
                - (IF result = "panic: imports index out of range" /\ seg = segIdx
                   THEN 1 ELSE 0)
          /\ pc = "done" => Len(Starts[seg].Fixups) = Len(ReachableSlots(seg))
    /\ \A k \in 1..Len(heads) :
          LET h == heads[k]
              fmt == Starts[h.seg].PointerFormat
              n == Len(h.reads)
          IN  /\ \A i \in 1..(n - 1) : NextField(fmt, h.reads[i].word) # 0
              /\ WalkCompleted(k) => n >= 1 /\ NextField(fmt, h.reads[n].word) = 0
              /\ ~WalkCompleted(k) /\ ~WalkAborted(k) =>
                    (n = 0 \/ NextField(fmt, h.reads[n].word) # 0)

\* A successful Parse that walked a chain of at least two slots.
C2_Witness ==
    /\ pc = "done"
    /\ \E k \in 1..Len(heads) : Len(heads[k].reads) >= 2

(***************************************************************************)
(* C3.  Parse starts its walks at exactly the chain heads of the page      *)
(* starts: none for NONE, one at the entry's value for a page without      *)
(* MULTI, and for a MULTI page one per entry from the index it names up to *)
(* and including the first entry with LAST.  A Parse that fails has walked *)
(* a prefix of them.                                                       *)
(***************************************************************************)
C3_WalksStartAtHeads ==
    LET walked == [k \in 1..Len(heads) |->
                     [seg |-> heads[k].seg, page |-> heads[k].page,
                      entry |-> heads[k].entry]]
    IN  /\ IsPrefix(walked, HeadsFromSegment(1))
        /\ pc = "done" => walked = HeadsFromSegment(1)
        /\ \A k \in 1..Len(heads) :
              LET ps == Starts[heads[k].seg].PageStarts
              IN  ~HasBit(ps[heads[k].page + 1], MULTI) =>
                     heads[k].offset = ps[heads[k].page + 1]

\* A successful Parse of a MULTI page with two chain heads.
C3_Witness ==
    /\ pc = "done"
    /\ \E i, j \in 1..Len(heads) :
          /\ heads[i].seg = heads[j].seg
          /\ heads[i].page = heads[j].page
          /\ heads[i].entry < heads[j].entry
          /\ HasBit(Starts[heads[i].seg].PageStarts[heads[j].entry + 1], LAST)

(***************************************************************************)
(* C4.  Every bind record carries the name of imports[ordinal], ordinal    *)
(* being the ordinal field of the record's raw word.                       *)
(***************************************************************************)
C4_BindCarriesImportName ==
    \A seg \in 1..Len(Starts) :
        \A k \in 1..Len(Starts[seg].Fixups) :
            LET f == Starts[seg].Fixups[k]
            IN  /\ f.kind = FixupKind(Starts[seg].PointerFormat, f.Pointer)
                /\ f.kind \in BindKinds =>
                      /\ BindOrdinal(f.kind, f.Pointer) < Len(Imports)
                      /\ f.Import = Imports[BindOrdinal(f.kind, f.Pointer) + 1].Name
                      /\ f.Import =
                            payload.Imports.Symbols[
                               payload.Imports.Records[
                                  BindOrdinal(f.kind, f.Pointer) + 1].NameOffset].Name

\* A bind to the second import, as in scenario S3.
C4_Witness ==
    \E seg \in 1..Len(Starts) :
        \E k \in 1..Len(Starts[seg].Fixups) :
            /\ Starts[seg].Fixups[k].kind \in BindKinds
            /\ BindOrdinal(Starts[seg].Fixups[k].kind, Starts[seg].Fixups[k].Pointer) = 1
            /\ Starts[seg].Fixups[k].Import = "_free"

(***************************************************************************)
(* C5.  A bind slot whose ordinal is at or past the end of the imports     *)
(* table makes Parse return an error.  The code indexes the table without  *)
(* a test, so Parse does not return at all: the index panics.              *)
(***************************************************************************)
C5_OrdinalOutOfRangeIsError ==
    \A k \in 1..Len(heads) :
        \A i \in 1..Len(heads[k].reads) :
            LET fmt == Starts[heads[k].seg].PointerFormat
                w == heads[k].reads[i].word
            IN  /\ FixupKind(fmt, w) \in BindKinds
                /\ BindOrdinal(FixupKind(fmt, w), w) >= Len(Imports)
                => pc = "error"

(***************************************************************************)
(* C6.  After a successful Parse every fixup of a segment lies within      *)
(* [segment_offset, segment_offset + size); a chain that leaves the range  *)
(* makes Parse fail.  The code never compares a location with the range.   *)
(***************************************************************************)
C6_FixupsWithinSegment ==
    pc = "done" =>
        \A seg \in 1..Len(Starts) :
            \A k \in 1..Len(Starts[seg].Fixups) :
                /\ Starts[seg].SegmentOffset <= Starts[seg].Fixups[k].Fixup
                /\ Starts[seg].Fixups[k].Fixup
                      < Starts[seg].SegmentOffset + Starts[seg].Size

(***************************************************************************)
(* C7.  Every fixup emitted lies a multiple of the stride of its format    *)
(* from the start of its segment.  The code takes the head offset as it is *)
(* and only ever adds multiples of the stride to it.                       *)
(***************************************************************************)
C7_FixupsStrideAligned ==
    \A seg \in 1..Len(Starts) :
        \A k \in 1..Len(Starts[seg].Fixups) :
            (Starts[seg].Fixups[k].Fixup - Starts[seg].SegmentOffset)
               % stride(Starts[seg].PointerFormat) = 0

(***************************************************************************)
(* C8.  A walk visits at most size / stride slots of its segment.  The     *)
(* code follows a chain past the end of the segment, as far as the image   *)
(* can be read.                                                            *)
(***************************************************************************)
C8_WalkWithinSlotCount ==
    \A k \in 1..Len(heads) :
        Len(heads[k].reads)
           <= Starts[heads[k].seg].Size \div stride(Starts[heads[k].seg].PointerFormat)

(***************************************************************************)
(* C9.  The fixups of a segment are a function of the input alone, in the  *)
(* order of the walk: pages ascending, the chain heads of a page in the    *)
(* order of the page starts, the slots of a chain in link order.  While    *)
(* Parse runs, and after it failed, the list is a prefix of that order.    *)
(***************************************************************************)
C9_FixupsInWalkOrder ==
    /\ \A seg \in 1..Len(Starts) :
          /\ IsPrefix(FixupSlots(seg), ReachableSlots(seg))
          /\ pc = "done" => FixupSlots(seg) = ReachableSlots(seg)
          /\ seg > segIdx => Starts[seg].Fixups = <<>>
          /\ \A k \in 1..Len(Starts[seg].Fixups) :
                Starts[seg].Fixups[k] =
                   MakeFixup(Starts[seg].PointerFormat, Starts[seg].Fixups[k].Pointer,
                             Starts[seg].Fixups[k].Fixup, Imports)
    /\ \A i, j \in 1..Len(heads) :
          i < j =>
             \/ heads[i].seg < heads[j].seg
             \/ /\ heads[i].seg = heads[j].seg
                /\ \/ heads[i].page < heads[j].page
                   \/ /\ heads[i].page = heads[j].page
                      /\ heads[i].entry < heads[j].entry

\* A successful Parse of two segments, the first with chains in two pages.
C9_Witness ==
    /\ pc = "done"
    /\ Len(Starts) = 2
    /\ Starts[2].Fixups # <<>>
    /\ \E i, j \in 1..Len(heads) :
          /\ heads[i].seg = 1 /\ heads[j].seg = 1
          /\ heads[i].page < heads[j].page
          /\ Starts[1].Fixups[1].Fixup < Starts[1].Fixups[Len(Starts[1].Fixups)].Fixup

(***************************************************************************)
(* C10.  A Parse that returns an error leaves the aggregate as it was      *)
(* before the call: no imports and no fixups.  The code appends to both as *)
(* it goes and takes nothing back when it fails.                           *)
(***************************************************************************)
C10_FailedParseLeavesNoTrace ==
    pc = "error" =>
        /\ Imports = <<>>
        /\ \A seg \in 1..Len(Starts) : Starts[seg].Fixups = <<>>

IsPowerOfTwo(n) == \E k \in 0..16 : n = Pow2(k)

(***************************************************************************)
(* C11.  ParseStarts fails on a segment whose pointer format is not of the *)
(* enumeration or whose page size is no power of two, so that once it has  *)
(* returned nil every segment it decoded is of a known format and has a    *)
(* power-of-two page size.  The code decodes the fields and tests none.    *)
(***************************************************************************)
C11_ParseStartsValidates ==
    pc # "start" /\ result # "ParseStarts: unexpected EOF" =>
        \A i \in 1..Len(Starts) :
            ~Starts[i].PageStartsNil =>
                /\ Starts[i].PointerFormat \in KnownFormats
                /\ IsPowerOfTwo(Starts[i].PageSize)

(***************************************************************************)
(* C12.  When the name of an import record is not NUL-terminated within    *)
(* the payload, Parse fails before it walks any chain.  The code drops the *)
(* error of parseImports and walks on with the names read so far.          *)
(***************************************************************************)
C12_UnterminatedNameFails ==
    (\E k \in 1..Len(payload.Imports.Records) :
        ~payload.Imports.Symbols[payload.Imports.Records[k].NameOffset].Terminated)
    => heads = <<>> /\ pc # "done"

(***************************************************************************)
(* C13.  When imports_format is none of 1, 2, 3 Parse does not succeed.    *)
(* The switch of parseImports has no default case: the imports list stays  *)
(* empty and Parse goes on.                                                *)
(***************************************************************************)
C13_UnknownImportsFormatFails ==
    payload.Imports.ImportsFormat \notin {DC_IMPORT, DC_IMPORT_ADDEND, DC_IMPORT_ADDEND64}
    => pc # "done"

(***************************************************************************)
(* 64-bit values, as raw words of eight value bytes.                       *)
(***************************************************************************)
\* uint64(x) of a 32-bit x, and uint32(x) of a 64-bit x.
Uint64(w) ==
    LET byte(k) == IF k <= Len(w) THEN w[k] ELSE 0
    IN  << byte(1), byte(2), byte(3), byte(4), byte(5), byte(6), byte(7), byte(8) >>
Uint32(w) == SubSeq(w, 1, 4)

\* The field of nbits bits at bit start of w, moved to bit shift of a 64-bit
\* value: (ExtractBits(w, start, nbits) << shift).
FieldWord(w, start, nbits, shift) ==
    LET bit(i) == IF i >= shift /\ i < shift + nbits /\ start + i - shift < 8 * Len(w)
                  THEN BitOfWord(w, start + i - shift) ELSE 0
        byte(k) ==
            bit(8 * (k - 1)) + 2 * bit(8 * (k - 1) + 1) + 4 * bit(8 * (k - 1) + 2)
            + 8 * bit(8 * (k - 1) + 3) + 16 * bit(8 * (k - 1) + 4)
            + 32 * bit(8 * (k - 1) + 5) + 64 * bit(8 * (k - 1) + 6)
            + 128 * bit(8 * (k - 1) + 7)
    IN  << byte(1), byte(2), byte(3), byte(4), byte(5), byte(6), byte(7), byte(8) >>

RECURSIVE CarryOut(_, _, _)
\* The carry out of byte k of a + b.
CarryOut(a, b, k) ==
    IF k = 0 THEN 0 ELSE (a[k] + b[k] + CarryOut(a, b, k - 1)) \div 256

\* a + b of uint64.
Add64(a, b) ==
    LET byte(k) == (a[k] + b[k] + CarryOut(a, b, k - 1)) % 256
    IN  << byte(1), byte(2), byte(3), byte(4), byte(5), byte(6), byte(7), byte(8) >>

\* a | b of two values that share no bit.
Or64(a, b) ==
    << a[1] + b[1], a[2] + b[2], a[3] + b[3], a[4] + b[4],
       a[5] + b[5], a[6] + b[6], a[7] + b[7], a[8] + b[8] >>

(***************************************************************************)
(* Targets of the rebase records, and Resolve.                             *)
(***************************************************************************)
\* DyldChainedPtr32Rebase.Target(): target:26.
Rebase32Target(w) == FieldWord(w, 0, 26, 0)
\* DyldChainedPtr64Rebase.UnpackedTarget(): target:36 | high8 << 56.
Rebase64UnpackedTarget(w) == Or64(FieldWord(w, 0, 36, 0), FieldWord(w, 36, 8, 56))
\* DyldChainedPtrArm64eRebase.UnpackTarget(): target:43 | high8 << 43.
Arm64eRebaseUnpackTarget(w) == Or64(FieldWord(w, 0, 43, 0), FieldWord(w, 43, 8, 43))
\* DyldChainedPtrArm64eAuthRebase.Target(): target:32.
Arm64eAuthRebaseTarget(w) == FieldWord(w, 0, 32, 0)

\* The formats whose rebase target is an offset from the load address.
OffsetFormats ==
    {DYLD_CHAINED_PTR_64_OFFSET, DYLD_CHAINED_PTR_ARM64E_KERNEL,
     DYLD_CHAINED_PTR_ARM64E_USERLAND, DYLD_CHAINED_PTR_ARM64E_USERLAND24}

RebaseKinds ==
    {"DyldChainedPtr32Rebase", "DyldChainedPtr32CacheRebase",
     "DyldChainedPtr32FirmwareRebase", "DyldChainedPtr64Rebase",
     "DyldChainedPtr64RebaseOffset", "DyldChainedPtr64KernelCacheRebase",
     "DyldChainedPtrArm64eRebase", "DyldChainedPtrArm64eRebase24",
     "DyldChainedPtrArm64eAuthRebase", "DyldChainedPtrArm64eAuthRebase24"}

\* The rebase kinds whose target field has a stated layout.
ResolvableKinds ==
    RebaseKinds \ {"DyldChainedPtr32CacheRebase", "DyldChainedPtr64KernelCacheRebase"}

\* r.Raw(): the slot word as uint64.
Raw(r) == Uint64(r.Pointer)

\* r.Resolve(preferredLoadAddress) of the rebase record r made in a segment
\* of the given format, for the kinds of ResolvableKinds.
Resolve(pointerFormat, r, preferredLoadAddress) ==
    LET w == Raw(r)
    IN  CASE r.kind \in {"DyldChainedPtr32Rebase", "DyldChainedPtr32FirmwareRebase"} ->
                Rebase32Target(w)
          [] r.kind = "DyldChainedPtr64Rebase" -> Rebase64UnpackedTarget(w)
          [] r.kind = "DyldChainedPtr64RebaseOffset" ->
                Add64(Rebase64UnpackedTarget(w), preferredLoadAddress)
          [] r.kind \in {"DyldChainedPtrArm64eRebase", "DyldChainedPtrArm64eRebase24"} ->
                IF pointerFormat \in OffsetFormats
                THEN Add64(FieldWord(w, 0, 43, 0), preferredLoadAddress)
                ELSE Arm64eRebaseUnpackTarget(w)
          [] r.kind \in {"DyldChainedPtrArm64eAuthRebase",
                         "DyldChainedPtrArm64eAuthRebase24"} ->
                Add64(Arm64eAuthRebaseTarget(w), preferredLoadAddress)

(***************************************************************************)
(* GetImportForPointer and RebasePointer.                                  *)
(***************************************************************************)
\* The ordinal the switch of GetImportForPointer leaves for a segment of the
\* format, or -1 where it continues with the next segment.
PointerOrdinal(pointerFormat, pointer) ==
    CASE pointerFormat = DYLD_CHAINED_PTR_32 ->
            IF ~Generic32IsBind(Uint32(pointer)) THEN -1
            ELSE BindOrdinal("DyldChainedPtr32Bind", Uint32(pointer))
      [] pointerFormat = DYLD_CHAINED_PTR_64 ->
            IF ~Generic64IsBind(pointer) THEN -1
            ELSE BindOrdinal("DyldChainedPtr64Bind", pointer)
      [] pointerFormat = DYLD_CHAINED_PTR_ARM64E ->
            IF ~DcpArm64eIsBind(pointer) THEN -1
            ELSE IF DcpArm64eIsAuth(pointer)
              THEN BindOrdinal("DyldChainedPtrArm64eAuthBind", pointer)
            ELSE BindOrdinal("DyldChainedPtrArm64eBind", pointer)
      [] OTHER -> -1

RECURSIVE GetImportFrom(_, _, _, _)
\* The loop of GetImportForPointer from segment i on.
GetImportFrom(starts, imports, pointer, i) ==
    IF i > Len(starts) THEN [err |-> "not a bind pointer", ordinal |-> -1]
    ELSE LET ordinal == IF starts[i].PageCount = 0 THEN -1
                        ELSE PointerOrdinal(starts[i].PointerFormat, pointer)
         IN  IF ordinal >= 0 /\ ordinal < Len(imports)
             THEN [err |-> "", ordinal |-> ordinal]
             ELSE GetImportFrom(starts, imports, pointer, i + 1)

GetImportForPointer(starts, imports, pointer) ==
    GetImportFrom(starts, imports, pointer, 1)

\* Mutant: the authenticated target is returned without the load address.
Arm64eAuthRebaseNotSlid(preferredLoadAddress, pointer) ==
    Arm64eAuthRebaseTarget(pointer)

\* return authRebase.Target() + preferredLoadAddress
Arm64eAuthRebaseSlid(preferredLoadAddress, pointer) ==
    Add64(Arm64eAuthRebaseTarget(pointer), preferredLoadAddress)

RECURSIVE RebasePointerFrom(_, _, _, _)
\* The loop of RebasePointer from segment i on.
RebasePointerFrom(starts, preferredLoadAddress, pointer, i) ==
    IF i > Len(starts) THEN pointer
    ELSE LET fmt == starts[i].PointerFormat
         IN  IF starts[i].PageCount = 0
               THEN RebasePointerFrom(starts, preferredLoadAddress, pointer, i + 1)
             ELSE IF fmt = DYLD_CHAINED_PTR_32 /\ ~Generic32IsBind(Uint32(pointer))
               THEN Rebase32Target(Uint64(Uint32(pointer)))
             ELSE IF fmt = DYLD_CHAINED_PTR_64 /\ ~Generic64IsBind(pointer)
               THEN Rebase64UnpackedTarget(pointer)
             ELSE IF fmt = DYLD_CHAINED_PTR_ARM64E /\ ~DcpArm64eIsBind(pointer)
               THEN IF DcpArm64eIsAuth(pointer)
                    THEN Arm64eAuthRebaseSlid(preferredLoadAddress, pointer)
                    ELSE Arm64eRebaseUnpackTarget(pointer)
             ELSE RebasePointerFrom(starts, preferredLoadAddress, pointer, i + 1)

RebasePointer(starts, preferredLoadAddress, pointer) ==
    RebasePointerFrom(starts, preferredLoadAddress, pointer, 1)

(***************************************************************************)
(* Aggregates that a successful Parse has left: one segment with a chain   *)
(* of two slots, at file offsets 8 and 16, followed by a segment without   *)
(* chains or by none.                                                      *)
(***************************************************************************)
TheImportTable == CHOOSE t \in ImportTables : TRUE
ParsedImports == parseImports(TheImportTable, <<>>)

\* The fields of the first and of the second slot of the chain.
FirstSlotFields ==
    { [low |-> 16384, next |-> 0, bind |-> 0, auth |-> 0],
      [low |-> 1, next |-> 0, bind |-> 1, auth |-> 0],
      [low |-> 16384, next |-> 0, bind |-> 0, auth |-> 1] }
SecondSlotFields ==
    { [low |-> 2, next |-> 0, bind |-> 0, auth |-> 0],
      [low |-> 0, next |-> 0, bind |-> 1, auth |-> 0],
      [low |-> 3, next |-> 0, bind |-> 0, auth |-> 1] }

FieldsOfFormat(pointerFormat, fields) ==
    IF pointerFormat \in FormatsArm64e THEN fields
    ELSE {g \in fields : g.auth = 0}

\* The two slot words: the next of the first leads from 8 to 16.
ChainWords(pointerFormat, a, b) ==
    << PackSlot(pointerFormat, [a EXCEPT !.next = 8 \div stride(pointerFormat)]),
       PackSlot(pointerFormat, b) >>

\* dcf.Starts[i] after the walk of that chain.
ParsedStart(pointerFormat, a, b) ==
    [ StartOf(SegInfo(pointerFormat, 8, <<0>>)) EXCEPT
        !.Fixups = << MakeFixup(pointerFormat, ChainWords(pointerFormat, a, b)[1],
                                8, ParsedImports),
                      MakeFixup(pointerFormat, ChainWords(pointerFormat, a, b)[2],
                                16, ParsedImports) >> ]

\* The bytes of the image that the walk of that chain has read.
ChainImage(order, pointerFormat, a, b) ==
    LET n == SlotWidth(pointerFormat)
        words == ChainWords(pointerFormat, a, b)
        first == EncodeWord(order, words[1])
        second == EncodeWord(order, words[2])
    IN  [o \in 8..(8 + n - 1) |-> first[o - 8 + 1]]
        @@ [o \in 16..(16 + n - 1) |-> second[o - 16 + 1]]

\* Second segments: absent, or with one page that starts no chain.
SecondSegInfos ==
    { AbsentSeg, SegInfo(DYLD_CHAINED_PTR_64, 128, <<NONE>>),
      SegInfo(DYLD_CHAINED_PTR_ARM64E_USERLAND, 128, <<NONE>>) }

\* The formats over which a reader is made.
ReaderFormats ==
    {DYLD_CHAINED_PTR_32, DYLD_CHAINED_PTR_64, DYLD_CHAINED_PTR_64_OFFSET,
     DYLD_CHAINED_PTR_ARM64E}

ParsedStates ==
    UNION { { [ payload |-> Payload(TheImportTable, SegInfo(f, 8, <<0>>), s2),
                bo |-> order,
                image |-> ChainImage(order, f, a, b),
                Starts |-> << ParsedStart(f, a, b),
                              IF s2.Present THEN StartOf(s2) ELSE ZeroStart >> ] :
                a \in FieldsOfFormat(f, FirstSlotFields),
                b \in FieldsOfFormat(f, SecondSlotFields),
                s2 \in SecondSegInfos,
                order \in IF f \in ReaderFormats THEN ByteOrders
                          ELSE {"LittleEndian"} } :
            f \in KnownFormats }
    \cup { [ payload |-> Payload(TheImportTable, AbsentSeg, AbsentSeg),
             bo |-> "LittleEndian", image |-> <<>>,
             Starts |-> << ZeroStart, ZeroStart >> ] }

\* A format that walkDcFixupChain and ptrSize do not know.
UnknownFormat == CHOOSE f \in UnknownFormats : TRUE

\* Aggregates whose Parse has failed: the chain of segment 1 was walked, and
\* the walk of the page of segment 2 met the unknown format.
FailedStates ==
    { [ payload |-> Payload(TheImportTable, SegInfo(DYLD_CHAINED_PTR_64, 8, <<0>>),
                            SegInfo(UnknownFormat, 128, <<0>>)),
        bo |-> "LittleEndian",
        image |-> ChainImage("LittleEndian", DYLD_CHAINED_PTR_64, a, b),
        Starts |-> << ParsedStart(DYLD_CHAINED_PTR_64, a, b),
                      StartOf(SegInfo(UnknownFormat, 128, <<0>>)) >> ] :
        a \in FieldsOfFormat(DYLD_CHAINED_PTR_64, FirstSlotFields),
        b \in FieldsOfFormat(DYLD_CHAINED_PTR_64, SecondSlotFields) }

\* Aggregates whose Parse has returned nil and whose first segment with pages
\* has the unknown format and no chain: the chain is in the segment after it.
UnsizedStates ==
    { [ payload |-> Payload(TheImportTable, SegInfo(UnknownFormat, 128, <<NONE>>),
                            SegInfo(DYLD_CHAINED_PTR_64, 8, <<0>>)),
        bo |-> "LittleEndian",
        image |-> ChainImage("LittleEndian", DYLD_CHAINED_PTR_64, a, b),
        Starts |-> << StartOf(SegInfo(UnknownFormat, 128, <<NONE>>)),
                      ParsedStart(DYLD_CHAINED_PTR_64, a, b) >> ] :
        a \in FieldsOfFormat(DYLD_CHAINED_PTR_64, FirstSlotFields),
        b \in FieldsOfFormat(DYLD_CHAINED_PTR_64, SecondSlotFields) }

\* What the Parse of such an aggregate returns.
ParseResultOf(st) ==
    IF st \in FailedStates THEN UnknownFormatError(UnknownFormat) ELSE "ok"

\* The pointers handed to GetImportForPointer and RebasePointer.
QueryPointers ==
    UNION { { Uint64(PackSlot(f, g)) :
                g \in FieldsOfFormat(f, FirstSlotFields \cup SecondSlotFields
                                        \cup SlotFields) } :
            f \in {DYLD_CHAINED_PTR_32, DYLD_CHAINED_PTR_64, DYLD_CHAINED_PTR_ARM64E} }

\* Preferred load addresses: 0x100000000.
LoadAddresses == { << 0, 0, 0, 0, 1, 0, 0, 0 >> }

(***************************************************************************)
(* LazyRebasedReader: an overlay over an underlying reader that shows the  *)
(* rebase slots resolved.  The buffer p of a read is a sequence of cap(p)  *)
(* bytes, of which the first len(p) are the slice.                         *)
(***************************************************************************)
\* The underlying reader holds ReadWindow bytes, at offsets 0..ReadWindow-1:
\* the byte at offset o is the (o+1)-th.
ReadWindow == 25
\* ReadAt is called with off in FirstReadOffset..LastReadOffset and a buffer
\* of at most MaxReadLen bytes.
FirstReadOffset == 6
LastReadOffset == 17
MaxReadLen == 9
ReadOffsets == FirstReadOffset..LastReadOffset

\* The bytes of the underlying reader: those of the image the fixups were
\* parsed from, and a filler elsewhere.
FaithfulBytes(img) ==
    Bytes([k \in 1..ReadWindow |-> IF (k - 1) \in DOMAIN img THEN img[k - 1] ELSE 170])

\* An underlying reader that differs from the image in the byte at offset 10,
\* inside the first slot.
CorruptBytes(img) ==
    [FaithfulBytes(img) EXCEPT ![11] = (@ + 1) % 256]

Underlyings(img) == {FaithfulBytes(img), CorruptBytes(img)}

\* A reader as constructed: only the required fields are set.
NewReader(under, base) ==
    [ made |-> TRUE, dcfNil |-> TRUE, baseAddr |-> Uint64(<<>>),
      rebases |-> <<>>, pointerSize |-> 0, pointersSet |-> FALSE,
      GetBaseAddr |-> base, Reader |-> under ]

\* ptrSize(pointerFormat): 0 stands for its error.
ptrSize(pointerFormat) ==
    IF pointerFormat \in KnownFormats THEN SlotWidth(pointerFormat) ELSE 0

\* Parse on an aggregate that Parse has filled: Starts is not nil, the
\* imports are appended once more and the walks append the same records.
ReparseStarts(starts) ==
    SubSeq([i \in 1..Len(starts) |-> [starts[i] EXCEPT !.Fixups = @ \o @]],
           1, Len(starts))
ReparseImports(imports) == parseImports(TheImportTable, imports)

\* f.(Rebase): the record is of a type that implements Rebase.
IsRebase(f) == f.kind \in RebaseKinds

\* for _, f := range s.Fixups: lrr.rebases[r.Offset()] = r for the rebases
\* among the records from the k-th on.  An entry keeps the format of its
\* segment with the record.
RECURSIVE PutRebases(_, _, _, _)
PutRebases(rebases, fixups, pointerFormat, k) ==
    IF k > Len(fixups) THEN rebases
    ELSE PutRebases(IF IsRebase(fixups[k])
                    THEN (fixups[k].Fixup :> [ r |-> fixups[k],
                                               format |-> pointerFormat ]) @@ rebases
                    ELSE rebases,
                    fixups, pointerFormat, k + 1)

\* The rebases map after the loop over the segments 1..upTo.
RECURSIVE RebasesOf(_, _)
RebasesOf(starts, upTo) ==
    IF upTo = 0 THEN << >>
    ELSE PutRebases(RebasesOf(starts, upTo - 1), starts[upTo].Fixups,
                    starts[upTo].PointerFormat, 1)

\* lrr.init() on the aggregate that GetDyldchainFixups returns, of which
\* starts is Starts after the Parse of init.  parsed is the outcome of that
\* Parse.
ReaderInit(r, starts, parsed) ==
    LET withPages == {i \in 1..Len(starts) : starts[i].PageCount > 0}
        first == CHOOSE i \in withPages : \A j \in withPages : i <= j
        size == IF withPages = {} THEN 0 ELSE ptrSize(starts[first].PointerFormat)
    IN  IF parsed # "ok"
          THEN [ err |-> "cannot parse fixups", lrr |-> [r EXCEPT !.dcfNil = FALSE] ]
        ELSE IF withPages # {} /\ size = 0
          THEN [ err |-> "unknown pointer format",
                 lrr |-> [r EXCEPT !.dcfNil = FALSE, !.baseAddr = r.GetBaseAddr,
                                   !.rebases = RebasesOf(starts, first - 1)] ]
        ELSE [ err |-> "",
               lrr |-> [r EXCEPT !.dcfNil = FALSE, !.baseAddr = r.GetBaseAddr,
                                 !.rebases = RebasesOf(starts, Len(starts)),
                                 !.pointerSize = size,
                                 !.pointersSet = (size # 0)] ]

\* lrr.writePointer(buf, v) and lrr.readPointer(buf): PutUint64 or, for
\* four-byte pointers, PutUint32 of uint32(v).
writePointer(pointerSize, order, v) ==
    Bytes(EncodeWord(order, IF pointerSize = 4 THEN Uint32(v) ELSE v))
readPointer(pointerSize, order, buf) ==
    Uint64(DecodeWord(order, buf))

\* lrr.Reader.ReadAt(p, off): the bytes read, short of len(p) with io.EOF at
\* the end of the underlying reader.
UnderlyingReadAt(under, len, off) ==
    LET n == IF off + len <= ReadWindow THEN len
             ELSE IF off >= ReadWindow THEN 0 ELSE ReadWindow - off
    IN  [ n |-> n, err |-> IF n < len THEN "EOF" ELSE "",
          bytes |-> SubSeq(under, off + 1, off + n) ]

\* if rOff+dstSize > max { dstSize -= rOff + dstSize - max }
ClipToRead(rOff, dstSize, max) ==
    IF rOff + dstSize > max THEN dstSize - (rOff + dstSize - max) ELSE dstSize

\* Mutant: the slot is overwritten with its raw value.
PatchWordRaw(entry, baseAddr) == Raw(entry.r)

\* r.Resolve(lrr.baseAddr), the value written over the slot.
PatchWord(entry, baseAddr) == Resolve(entry.format, entry.r, baseAddr)

\* One turn of the loop of patchReadBytes, for the rebase at rOff.  high is
\* the upper index of the slice of p taken, 0 if none was.
PatchOne(r, order, p, len, off, rOff) ==
    LET max == off + len
        srcOff == IF rOff < off THEN off - rOff ELSE 0
        dstOff == IF rOff < off THEN 0 ELSE rOff - off
        dstSize == ClipToRead(rOff, r.pointerSize - srcOff, max)
        raw == writePointer(r.pointerSize, order, Raw(r.rebases[rOff].r))
        resolved == writePointer(r.pointerSize, order,
                                 PatchWord(r.rebases[rOff], r.baseAddr))
    IN  IF rOff + r.pointerSize < off \/ rOff > max
          THEN [ err |-> "", p |-> p, high |-> 0 ]
        ELSE IF ~r.pointersSet
          THEN [ err |-> "panic: nil writePointer", p |-> p, high |-> 0 ]
        ELSE IF dstOff + dstSize > Len(p)
          THEN [ err |-> "panic: slice bounds out of range", p |-> p,
                 high |-> dstOff + dstSize ]
        ELSE IF \E k \in 1..dstSize : raw[srcOff + k] # p[dstOff + k]
          THEN [ err |-> "underlying read value mismatch", p |-> p,
                 high |-> dstOff + dstSize ]
        ELSE [ err |-> "",
               p |-> Bytes([i \in 1..Len(p) |->
                               IF i > dstOff /\ i <= dstOff + dstSize
                               THEN resolved[srcOff + i - dstOff] ELSE p[i]]),
               high |-> dstOff + dstSize ]

\* patchReadBytes(p, off), the map ranged over in the order keys.
RECURSIVE patchReadBytes(_, _, _, _, _, _)
patchReadBytes(r, order, p, len, off, keys) ==
    IF keys = <<>> THEN [ err |-> "", p |-> p, high |-> 0 ]
    ELSE LET one == PatchOne(r, order, p, len, off, Head(keys))
             rest == patchReadBytes(r, order, one.p, len, off, Tail(keys))
         IN  IF one.err # "" THEN one
             ELSE [rest EXCEPT !.high = IF one.high > @ THEN one.high ELSE @]

\* The orders in which a range over a map of these keys may go.
RangeOrders(keys) ==
    { s \in [1..Cardinality(keys) -> keys] :
          \A i, j \in 1..Cardinality(keys) : s[i] = s[j] => i = j }

\* The caller's buffer before the read: cap bytes of its own.
CallerBuffer(cap) == Bytes([k \in 1..cap |-> 85])

\* Parse has returned nil; no reader has been made.
UseInit ==
    /\ \E st \in ParsedStates :
          /\ payload = st.payload
          /\ bo = st.bo
          /\ image = st.image
          /\ Starts = st.Starts
    /\ chosen = 0
    /\ startsNil = FALSE
    /\ Imports = ParsedImports
    /\ pc = "done"
    /\ result = "ok"
    /\ segIdx = 3
    /\ pageIndex = 0
    /\ overflowIndex = 0
    /\ chainEnd = FALSE
    /\ inMulti = FALSE
    /\ offsetInPage = 0
    /\ next = 0
    /\ walkEnd = FALSE
    /\ heads = <<>>
    /\ lrr = NoReader
    /\ call = NoCall
    /\ routines = NoRoutines
    /\ inits = << >>
    /\ NoObjc

dcfVars == << payload, bo, image, chosen, Starts, startsNil, Imports, pc, result,
              parseVars, walkVars, heads >>

\* A call of GetImportForPointer on the parsed aggregate.  A behaviour makes
\* one call: what a call returns does not depend on the calls before it.
CallGetImportForPointer ==
    /\ pc = "done"
    /\ call = NoCall
    /\ \E pointer \in QueryPointers :
          call' = [ op |-> "GetImportForPointer", pointer |-> pointer,
                    ret |-> GetImportForPointer(Starts, Imports, pointer) ]
    /\ UNCHANGED << dcfVars, lrr, routines, inits, objcVars >>

\* A call of RebasePointer on the parsed aggregate; before is the aggregate
\* as the call found it.
CallRebasePointer ==
    /\ pc = "done"
    /\ call = NoCall
    /\ \E preferredLoadAddress \in LoadAddresses, pointer \in QueryPointers :
          call' = [ op |-> "RebasePointer", pointer |-> pointer,
                    preferredLoadAddress |-> preferredLoadAddress,
                    before |-> << Starts, Imports >>,
                    ret |-> RebasePointer(Starts, preferredLoadAddress, pointer) ]
    /\ UNCHANGED << dcfVars, lrr, routines, inits, objcVars >>

\* A call of lrr.ReadAt(p, off) with len(p) = len and cap(p) = len + room.
\* The first call runs init, which parses the aggregate once more.
CallReadAt ==
    /\ lrr.made
    /\ call = NoCall
    /\ \E off \in ReadOffsets, len \in 0..MaxReadLen, room \in {0, 8} :
          LET starts == IF lrr.dcfNil THEN ReparseStarts(Starts) ELSE Starts
              ini == IF lrr.dcfNil THEN ReaderInit(lrr, starts, result)
                     ELSE [ err |-> "", lrr |-> lrr ]
              under == UnderlyingReadAt(lrr.Reader, len, off)
              none == [ n |-> 0, err |-> "", bytes |-> <<>> ]
              p0 == CallerBuffer(len + room)
              p1 == Bytes([k \in 1..(len + room) |->
                              IF k <= under.n THEN under.bytes[k] ELSE p0[k]])
              ret(u, n, err, p, high) ==
                  [ op |-> "ReadAt", off |-> off, len |-> len, cap |-> len + room,
                    under |-> u, n |-> n, err |-> err, p |-> p, high |-> high ]
          IN  /\ Starts' = starts
              /\ Imports' = IF lrr.dcfNil THEN ReparseImports(Imports) ELSE Imports
              /\ lrr' = ini.lrr
              /\ IF ini.err # ""
                   THEN call' = ret(none, 0, "failed to initialise rebased reader",
                                    p0, 0)
                 ELSE IF under.err # ""
                   THEN call' = ret(under, under.n, under.err, p1, 0)
                 ELSE \E keys \in RangeOrders(DOMAIN ini.lrr.rebases) :
                        LET pr == patchReadBytes(ini.lrr, bo, p1, len, off, keys)
                        IN  call' = ret(under, IF pr.err = "" THEN under.n ELSE 0,
                                        pr.err, pr.p, pr.high)
    /\ UNCHANGED << payload, bo, image, chosen, startsNil, pc, result,
                    parseVars, walkVars, heads, routines, inits, objcVars >>

UseNext ==
    \/ CallGetImportForPointer
    \/ CallRebasePointer

UseSpec == UseInit /\ [][UseNext]_vars

\* The readers there may be over the aggregate st: one that has not read yet,
\* and one that an earlier read has initialised.
ReadersOver(st) ==
    LET new == { NewReader(u, base) : u \in Underlyings(st.image),
                                      base \in LoadAddresses }
    IN  new \cup { ReaderInit(r, ReparseStarts(st.Starts), "ok").lrr : r \in new }

\* A reader has been made over an aggregate of one segment whose Parse has
\* returned nil.  The init of a reader has parsed once more.
ReadInit ==
    /\ \E st \in ParsedStates :
          /\ st.Starts[1].PointerFormat \in ReaderFormats \cup {0}
          /\ st.Starts[2] = ZeroStart
          /\ payload = st.payload
          /\ bo = st.bo
          /\ image = st.image
          /\ lrr \in ReadersOver(st)
          /\ Starts = IF lrr.dcfNil THEN st.Starts ELSE ReparseStarts(st.Starts)
    /\ Imports = IF lrr.dcfNil THEN ParsedImports ELSE ReparseImports(ParsedImports)
    /\ chosen = 0
    /\ startsNil = FALSE
    /\ pc = "done"
    /\ result = "ok"
    /\ segIdx = 3
    /\ pageIndex = 0
    /\ overflowIndex = 0
    /\ chainEnd = FALSE
    /\ inMulti = FALSE
    /\ offsetInPage = 0
    /\ next = 0
    /\ walkEnd = FALSE
    /\ heads = <<>>
    /\ call = NoCall
    /\ routines = NoRoutines
    /\ inits = << >>
    /\ NoObjc

ReadNext == CallReadAt

ReadSpec == ReadInit /\ [][ReadNext]_vars

\* The segments that have pages, in declared order.
SegmentsWithPages == {i \in 1..Len(Starts) : Starts[i].PageCount > 0}

\* The pointer as a slot of the format: 32-bit formats see its low half.
AsSlot(pointerFormat, pointer) ==
    IF SlotWidth(pointerFormat) = 4 THEN Uint32(pointer) ELSE pointer

\* The walker would make a bind record of the pointer in this format.
ClassifiesAsBind(pointerFormat, pointer) ==
    /\ pointerFormat \in KnownFormats
    /\ FixupKind(pointerFormat, AsSlot(pointerFormat, pointer)) \in BindKinds

FirstOf(S) == CHOOSE i \in S : \A j \in S : i <= j

(***************************************************************************)
(* C14.  GetImportForPointer returns the not-a-bind error exactly when no  *)
(* segment with pages classifies the pointer as a bind by its format, and  *)
(* otherwise the import at the ordinal that the first such segment decodes *)
(* (where that ordinal names an import).  The code knows three formats     *)
(* only and passes over segments of every other format.                    *)
(***************************************************************************)
C14_ImportOfFirstBindSegment ==
    call.op = "GetImportForPointer" =>
        LET binds == {i \in SegmentsWithPages :
                         ClassifiesAsBind(Starts[i].PointerFormat, call.pointer)}
            fmt == Starts[FirstOf(binds)].PointerFormat
            ordinal == BindOrdinal(FixupKind(fmt, AsSlot(fmt, call.pointer)),
                                   AsSlot(fmt, call.pointer))
        IN  /\ call.ret.ordinal < Len(Imports)
            /\ binds = {} => call.ret.err # ""
            /\ binds # {} /\ ordinal < Len(Imports) =>
                  call.ret.err = "" /\ call.ret.ordinal = ordinal

(***************************************************************************)
(* C15.  For a rebase record r that Parse made in the only segment with    *)
(* pages, RebasePointer(base, r.Raw()) is r.Resolve(base).  The code has   *)
(* cases for PTR_32, PTR_64 and ARM64E only: a pointer of any other format *)
(* comes back as it went in.                                               *)
(***************************************************************************)
C15_RebasePointerIsResolve ==
    call.op = "RebasePointer" =>
        \A i \in SegmentsWithPages :
            SegmentsWithPages = {i} =>
                \A k \in 1..Len(Starts[i].Fixups) :
                    LET r == Starts[i].Fixups[k]
                    IN  r.kind \in ResolvableKinds /\ Raw(r) = call.pointer =>
                           call.ret = Resolve(Starts[i].PointerFormat, r,
                                              call.preferredLoadAddress)

(***************************************************************************)
(* C16.  RebasePointer returns the pointer as it is when every segment     *)
(* with pages decodes it as a bind, or when there is no such segment; for  *)
(* an authenticated rebase of an ARM64E segment, the first with pages, it  *)
(* returns the low 32 bits of the pointer plus the preferred load address; *)
(* and it leaves the aggregate as it found it.                             *)
(***************************************************************************)
C16_RebasePointerFrame ==
    call.op = "RebasePointer" =>
        /\ (\A i \in SegmentsWithPages :
               ClassifiesAsBind(Starts[i].PointerFormat, call.pointer))
           => call.ret = call.pointer
        /\ /\ SegmentsWithPages # {}
           /\ Starts[FirstOf(SegmentsWithPages)].PointerFormat = DYLD_CHAINED_PTR_ARM64E
           /\ ~DcpArm64eIsBind(call.pointer)
           /\ DcpArm64eIsAuth(call.pointer)
           => call.ret = Add64(FieldWord(call.pointer, 0, 32, 0),
                               call.preferredLoadAddress)
        /\ call.before = << Starts, Imports >>

\* Scenario S5: an authenticated rebase with target 0x4000 in an ARM64E
\* segment, resolved against 0x100000000, gives 0x100004000.
C16_Witness ==
    /\ call.op = "RebasePointer"
    /\ Starts[1].PointerFormat = DYLD_CHAINED_PTR_ARM64E
    /\ Starts[1].PageCount > 0
    /\ ~DcpArm64eIsBind(call.pointer) /\ DcpArm64eIsAuth(call.pointer)
    /\ FieldWord(call.pointer, 0, 32, 0) = << 0, 64, 0, 0, 0, 0, 0, 0 >>
    /\ call.ret = << 0, 64, 0, 0, 1, 0, 0, 0 >>

\* The rebase slot at rOff shares a byte with the range of the last read.
Intersects(rOff) ==
    \E o \in call.off..(call.off + call.len - 1) :
        rOff <= o /\ o < rOff + lrr.pointerSize

\* The bytes of the slot at rOff as the image holds them, and resolved.
RawBytes(rOff) ==
    writePointer(lrr.pointerSize, bo, Raw(lrr.rebases[rOff].r))
ResolvedBytes(rOff) ==
    writePointer(lrr.pointerSize, bo,
                 Resolve(lrr.rebases[rOff].format, lrr.rebases[rOff].r,
                         lrr.GetBaseAddr))

\* The caller's buffer with the bytes the underlying reader returned.
UnderlyingBuffer ==
    call.under.bytes \o SubSeq(CallerBuffer(call.cap), call.under.n + 1, call.cap)

(***************************************************************************)
(* C17.  A read whose range shares no byte with a rebase slot returns what *)
(* the underlying reader returned: the same count, the same error, and the *)
(* buffer as the underlying reader left it.  That covers reads over bind   *)
(* slots, which are not in the map, and slots that end at the start of the *)
(* range or start at its end.  An empty read at an offset inside a slot    *)
(* shares no byte with it, yet the code takes a one-byte slice of the      *)
(* buffer for it (see C19).                                                *)
(***************************************************************************)
C17_ReadsOutsideSlotsPassThrough ==
    (/\ call.op = "ReadAt"
     /\ call.err # "failed to initialise rebased reader"
     /\ \A rOff \in DOMAIN lrr.rebases : ~Intersects(rOff))
    => /\ call.n = call.under.n
       /\ call.err = call.under.err
       /\ call.p = UnderlyingBuffer

(***************************************************************************)
(* C18.  A read of exactly one rebase slot, whose underlying bytes are the *)
(* raw value of the record in the byte order of the image, succeeds, and   *)
(* the bytes returned decode in that width and order to the record's       *)
(* Resolve of GetBaseAddr().                                               *)
(***************************************************************************)
C18_ExactSlotReadIsResolved ==
    call.op = "ReadAt" =>
        \A rOff \in DOMAIN lrr.rebases :
            (/\ call.off = rOff
             /\ call.len = lrr.pointerSize
             /\ call.under.err = ""
             /\ call.under.bytes = RawBytes(rOff))
            => /\ call.err = ""
               /\ call.n = lrr.pointerSize
               /\ readPointer(lrr.pointerSize, bo, SubSeq(call.p, 1, call.len))
                     = Resolve(lrr.rebases[rOff].format, lrr.rebases[rOff].r,
                               lrr.GetBaseAddr)

\* The read of a slot of a PTR_64_OFFSET segment whose target is 0x4000,
\* against the base 0x100000000, as the first read of a big-endian reader:
\* the bytes returned are those of 0x100004000.
C18_Witness ==
    /\ call.op = "ReadAt"
    /\ Starts[1].PointerFormat = DYLD_CHAINED_PTR_64_OFFSET
    /\ bo = "BigEndian"
    /\ call.off = 8 /\ call.len = 8
    /\ 8 \in DOMAIN lrr.rebases
    /\ call.under.bytes = RawBytes(8)
    /\ call.err = ""
    /\ SubSeq(call.p, 1, 8) = << 0, 0, 0, 1, 0, 0, 64, 0 >>
    /\ SubSeq(call.p, 1, 8) # call.under.bytes

(***************************************************************************)
(* C19.  For a read that a rebase slot intersects in part, patchReadBytes  *)
(* takes no slice of the buffer beyond its length, does not panic, and on  *)
(* success the buffer holds the resolved bytes where a rebase slot lies    *)
(* and the underlying bytes elsewhere.  The code cuts the slot at the end  *)
(* of the read only after it has shortened it at the start, so a read that *)
(* starts inside a slot and ends before the slot does takes a slice longer *)
(* than the buffer.                                                        *)
(***************************************************************************)
C19_PartialIntersectionsInBounds ==
    call.op = "ReadAt" =>
        /\ call.high <= call.len
        /\ call.err # "panic: slice bounds out of range"
        /\ call.err = "" =>
              \A k \in 1..call.len :
                  LET o == call.off + k - 1
                      slots == {rOff \in DOMAIN lrr.rebases :
                                   rOff <= o /\ o < rOff + lrr.pointerSize}
                  IN  /\ slots = {} => call.p[k] = call.under.bytes[k]
                      /\ \A rOff \in slots :
                            call.p[k] = ResolvedBytes(rOff)[o - rOff + 1]

(***************************************************************************)
(* C20.  When the underlying bytes of a rebase slot differ from the raw    *)
(* value of the record in a byte that the read covers, ReadAt returns the  *)
(* mismatch error.  A read that starts inside the slot and ends before the *)
(* slot does panics on its slice (see C19) before it returns anything.     *)
(***************************************************************************)
C20_MismatchIsError ==
    (/\ call.op = "ReadAt"
     /\ call.under.err = ""
     /\ call.err # "failed to initialise rebased reader"
     /\ \E rOff \in DOMAIN lrr.rebases :
           \E k \in 1..call.len :
              /\ rOff <= call.off + k - 1
              /\ call.off + k - 1 < rOff + lrr.pointerSize
              /\ call.under.bytes[k] # RawBytes(rOff)[call.off + k - rOff])
    => call.err = "underlying read value mismatch"

(***************************************************************************)
(* C23.  The walk of a chain head of a MULTI page is handed the low 14     *)
(* bits of its overflow entry as the offset in the page.  The code clears  *)
(* the LAST bit of the entry only, so the bit 0x8000 of an entry stays in  *)
(* the offset.                                                             *)
(***************************************************************************)
C23_OverflowOffsetIsLow14Bits ==
    \A k \in 1..Len(heads) :
        LET ps == Starts[heads[k].seg].PageStarts
        IN  HasBit(ps[heads[k].page + 1], MULTI) =>
               heads[k].offset = ps[heads[k].entry + 1] % 16384

(***************************************************************************)
(* C24.  In a DYLD_CHAINED_PTR_32_FIRMWARE segment the walk goes from a    *)
(* slot to the slot (word >> 26) * 4 bytes on, and ends at the slot whose  *)
(* six bits 26..31 are zero.  The code decodes next with Generic32Next,    *)
(* the five bits 26..30, as it does for DYLD_CHAINED_PTR_32.               *)
(***************************************************************************)
C24_FirmwareNextIsSixBits ==
    \A k \in 1..Len(heads) :
        Starts[heads[k].seg].PointerFormat = DYLD_CHAINED_PTR_32_FIRMWARE =>
            \A j \in 1..Len(heads[k].reads) :
                LET n == ExtractBits(heads[k].reads[j].word, 26, 6)
                IN  /\ j < Len(heads[k].reads) =>
                          /\ n # 0
                          /\ heads[k].reads[j + 1].loc = heads[k].reads[j].loc + n * 4
                    /\ (j = Len(heads[k].reads) /\ WalkCompleted(k)) => n = 0

C28_PageStartsIndexInRange ==
    /\ result # "panic: page starts index out of range"
    /\ pc = "multi" /\ ~chainEnd => overflowIndex < CurStart.PageCount
    /\ \A k \in 1..Len(heads) : heads[k].entry < Starts[heads[k].seg].PageCount

(***************************************************************************)
(* Parse called once more on an aggregate that Parse has filled, as the    *)
(* init of a reader calls it.  before is the aggregate as the call found   *)
(* it.  The image holds the slots that the first Parse read.               *)
(***************************************************************************)
AgainInit ==
    /\ \E st \in ParsedStates \cup FailedStates \cup UnsizedStates :
          /\ payload = st.payload
          /\ bo = st.bo
          /\ image = st.image
          /\ Starts = st.Starts
    /\ Imports = ParsedImports
    /\ call = [ op |-> "Parse", before |-> << Starts, Imports >> ]
    /\ chosen = 0
    /\ startsNil = FALSE
    /\ pc = "start"
    /\ result = "none"
    /\ segIdx = 1
    /\ pageIndex = 0
    /\ overflowIndex = 0
    /\ chainEnd = FALSE
    /\ inMulti = FALSE
    /\ offsetInPage = 0
    /\ next = 0
    /\ walkEnd = FALSE
    /\ heads = << >>
    /\ lrr = NoReader
    /\ routines = NoRoutines
    /\ inits = << >>
    /\ NoObjc

\* The steps of Parse that these aggregates lead to.
AgainNext ==
    \/ ParseBegin
    \/ ParseReturn
    \/ NextSegment
    \/ SkipPage
    \/ StartSingle
    \/ WalkSlot
    \/ WalkReturn
    \/ WalkUnknownFormat

AgainSpec == AgainInit /\ [][AgainNext]_vars

(***************************************************************************)
(* C26.  A second Parse that returns nil leaves Imports and the Fixups of  *)
(* every segment as the first left them.  The code appends: parseImports   *)
(* appends every import to dcf.Imports again, and the walks append every   *)
(* record to the Fixups of its segment again.                              *)
(***************************************************************************)
C26_ParseIsIdempotent ==
    (call.op = "Parse" /\ pc = "done") => << Starts, Imports >> = call.before

(***************************************************************************)
(* Goroutines calling ReadAt on one reader.  Neither ReadAt nor init takes *)
(* a lock, so the steps of the calls interleave; a step is the code        *)
(* between two accesses to the fields that the goroutines share.  Each     *)
(* goroutine reads the eight bytes of the slot at file offset 8.           *)
(***************************************************************************)
Goroutines == {1, 2}
\* ReadAt calls that one goroutine makes, one after the other.
MaxCalls == 2
\* ReadAt(p, LazyOff) with len(p) = cap(p) = LazyLen.
LazyOff == 8
LazyLen == 8

\* A goroutine that has called nothing yet.
IdleRoutine ==
    [ pc |-> "idle", calls |-> 0, afterFailure |-> FALSE, ranInit |-> FALSE,
      patched |-> FALSE, complete |-> FALSE, n |-> 0, err |-> "", p |-> << >> ]

\* The aggregates that GetDyldchainFixups returns to the reader.
LazyStates ==
    { st \in ParsedStates : /\ st.Starts[1].PointerFormat = DYLD_CHAINED_PTR_64
                            /\ st.Starts[2] = ZeroStart
                            /\ st.bo = "LittleEndian" }
    \cup FailedStates \cup UnsizedStates

LazyInit ==
    /\ \E st \in LazyStates :
          /\ payload = st.payload
          /\ bo = st.bo
          /\ image = st.image
          /\ Starts = st.Starts
          /\ result = ParseResultOf(st)
          /\ \E base \in LoadAddresses :
                lrr = NewReader(FaithfulBytes(st.image), base)
    /\ pc = IF result = "ok" THEN "done" ELSE "error"
    /\ Imports = ParsedImports
    /\ chosen = 0
    /\ startsNil = FALSE
    /\ segIdx = 3
    /\ pageIndex = 0
    /\ overflowIndex = 0
    /\ chainEnd = FALSE
    /\ inMulti = FALSE
    /\ offsetInPage = 0
    /\ next = 0
    /\ walkEnd = FALSE
    /\ heads = << >>
    /\ call = NoCall
    /\ routines = [g \in Goroutines |-> IdleRoutine]
    /\ inits = << >>
    /\ NoObjc

lazyFrame == << payload, bo, image, chosen, startsNil, pc, result, parseVars,
                walkVars, heads, call, objcVars >>

\* Some run of init has returned an error.
InitHasFailed == \E k \in 1..Len(inits) : inits[k].err \notin {"", "running"}

\* The run of init that goroutine g is in returns err.
InitReturns(g, err) ==
    [k \in 1..Len(inits) |->
        IF inits[k].by = g /\ inits[k].err = "running"
        THEN [inits[k] EXCEPT !.err = err] ELSE inits[k]]

\* The index is built and the pointer functions are set.
ReaderComplete ==
    /\ ~lrr.dcfNil
    /\ lrr.rebases = RebasesOf(Starts, Len(Starts))
    /\ lrr.baseAddr = lrr.GetBaseAddr
    /\ lrr.pointersSet

\* ReadAt is entered: if lrr.dcf == nil
ReadAtCheck(g) ==
    /\ routines[g].pc \in {"idle", "done"}
    /\ routines[g].calls < MaxCalls
    /\ routines' = [routines EXCEPT ![g] =
                       [ IdleRoutine EXCEPT
                           !.pc = IF lrr.dcfNil THEN "get" ELSE "read",
                           !.calls = routines[g].calls + 1,
                           !.afterFailure = InitHasFailed,
                           !.ranInit = lrr.dcfNil ]]
    /\ inits' = IF lrr.dcfNil THEN Append(inits, [by |-> g, err |-> "running"])
                ELSE inits
    /\ UNCHANGED << lazyFrame, lrr, Starts, Imports >>

\* init: lrr.dcf, err = lrr.GetDyldchainFixups()
InitGet(g) ==
    /\ routines[g].pc = "get"
    /\ lrr' = [lrr EXCEPT !.dcfNil = FALSE]
    /\ routines' = [routines EXCEPT ![g].pc = "parse"]
    /\ UNCHANGED << lazyFrame, inits, Starts, Imports >>

\* init: lrr.dcf.Parse(), and the return of ReadAt if it failed
InitParse(g) ==
    /\ routines[g].pc = "parse"
    /\ Starts' = ReparseStarts(Starts)
    /\ Imports' = ReparseImports(Imports)
    /\ IF result # "ok"
         THEN /\ routines' = [routines EXCEPT
                                 ![g].pc = "done",
                                 ![g].err = "failed to initialise rebased reader"]
              /\ inits' = InitReturns(g, "cannot parse fixups")
         ELSE /\ routines' = [routines EXCEPT ![g].pc = "make"]
              /\ UNCHANGED inits
    /\ UNCHANGED << lazyFrame, lrr >>

\* init: lrr.rebases = make(map[uint64]Rebase); lrr.baseAddr = lrr.GetBaseAddr()
InitMake(g) ==
    /\ routines[g].pc = "make"
    /\ lrr' = [lrr EXCEPT !.rebases = << >>, !.baseAddr = lrr.GetBaseAddr]
    /\ routines' = [routines EXCEPT ![g].pc = "loop"]
    /\ UNCHANGED << lazyFrame, inits, Starts, Imports >>

\* init: for _, s := range lrr.dcf.Starts, and the return of ReadAt if ptrSize
\* failed
InitLoop(g) ==
    LET withPages == {i \in 1..Len(Starts) : Starts[i].PageCount > 0}
        first == CHOOSE i \in withPages : \A j \in withPages : i <= j
        size == IF lrr.pointerSize # 0 THEN lrr.pointerSize
                ELSE IF withPages = {} THEN 0
                ELSE ptrSize(Starts[first].PointerFormat)
    IN  /\ routines[g].pc = "loop"
        /\ IF withPages # {} /\ size = 0
             THEN /\ lrr' = [lrr EXCEPT
                                !.rebases = RebasesOf(Starts, first - 1) @@ @]
                  /\ routines' = [routines EXCEPT
                                     ![g].pc = "done",
                                     ![g].err = "failed to initialise rebased reader"]
                  /\ inits' = InitReturns(g, "unknown pointer format")
             ELSE /\ lrr' = [lrr EXCEPT
                                !.rebases = RebasesOf(Starts, Len(Starts)) @@ @,
                                !.pointerSize = size]
                  /\ routines' = [routines EXCEPT ![g].pc = "funcs"]
                  /\ UNCHANGED inits
        /\ UNCHANGED << lazyFrame, Starts, Imports >>

\* init: switch lrr.pointerSize, and return nil
InitFuncs(g) ==
    /\ routines[g].pc = "funcs"
    /\ lrr' = [lrr EXCEPT !.pointersSet = (@ \/ lrr.pointerSize # 0)]
    /\ routines' = [routines EXCEPT ![g].pc = "read"]
    /\ inits' = InitReturns(g, "")
    /\ UNCHANGED << lazyFrame, Starts, Imports >>

\* ReadAt: n, err = lrr.Reader.ReadAt(p, off)
ReadAtRead(g) ==
    LET under == UnderlyingReadAt(lrr.Reader, LazyLen, LazyOff)
    IN  /\ routines[g].pc = "read"
        /\ routines' = [routines EXCEPT
                           ![g].pc = IF under.err # "" THEN "done" ELSE "patch",
                           ![g].n = under.n,
                           ![g].err = under.err,
                           ![g].p = under.bytes]
        /\ UNCHANGED << lazyFrame, lrr, inits, Starts, Imports >>

\* ReadAt: lrr.patchReadBytes(p, uint64(off)), and the return
ReadAtPatch(g) ==
    /\ routines[g].pc = "patch"
    /\ \E keys \in RangeOrders(DOMAIN lrr.rebases) :
          LET pr == patchReadBytes(lrr, bo, routines[g].p, LazyLen, LazyOff, keys)
          IN  routines' = [routines EXCEPT
                              ![g].pc = "done",
                              ![g].patched = TRUE,
                              ![g].complete = ReaderComplete,
                              ![g].n = IF pr.err = "" THEN @ ELSE 0,
                              ![g].err = pr.err,
                              ![g].p = pr.p]
    /\ UNCHANGED << lazyFrame, lrr, inits, Starts, Imports >>

LazyNext ==
    \/ \E g \in Goroutines : ReadAtCheck(g)
    \/ \E g \in Goroutines : InitGet(g)
    \/ \E g \in Goroutines : InitParse(g)
    \/ \E g \in Goroutines : InitMake(g)
    \/ \E g \in Goroutines : InitLoop(g)
    \/ \E g \in Goroutines : InitFuncs(g)
    \/ \E g \in Goroutines : ReadAtRead(g)
    \/ \E g \in Goroutines : ReadAtPatch(g)

LazySpec == LazyInit /\ [][LazyNext]_vars

(***************************************************************************)
(* C21.  Whatever the interleaving of the ReadAt calls on one reader, init *)
(* runs once, and a call that patches its bytes does so against the        *)
(* finished index with the pointer functions set.  The code takes no lock: *)
(* two goroutines that both find lrr.dcf nil both run init, and lrr.dcf is *)
(* set before the index is built, so that a call entering in between       *)
(* patches against what there is.                                          *)
(***************************************************************************)
C21_InitOnceAndIndexComplete ==
    /\ Len(inits) <= 1
    /\ \A g \in DOMAIN routines : routines[g].patched => routines[g].complete

(***************************************************************************)
(* C27.  A ReadAt entered after a run of init has returned an error runs   *)
(* init itself or returns an error.  The code sets lrr.dcf before the      *)
(* steps that fail, so the later call skips init and returns the bytes of  *)
(* the underlying reader with a nil error.                                 *)
(***************************************************************************)
C27_NoReadAfterFailedInit ==
    \A g \in DOMAIN routines :
        (routines[g].pc = "done" /\ routines[g].afterFailure)
            => (routines[g].ranInit \/ routines[g].err # "")

(***************************************************************************)
(* Objective-C metadata: GetObjCClass and the protocol walkers.  The calls *)
(* that have not returned are kept on stack; a step is the code of one     *)
(* function between two calls of those functions.  Addresses are as        *)
(* f.vma.Convert leaves them; an address outside the file is one for which *)
(* f.vma.GetOffset fails.  Strings are sequences of characters.  The       *)
(* method, ivar and property lists of a class are left out.                *)
(***************************************************************************)
\* Frames on the Go stack before the runtime ends the program.
MaxDepth == 6

ClassPrefix == << "_", "O", "B", "J", "C", "_", "C", "L", "A", "S", "S", "_", "$", "_" >>
RootName == << "<", "R", "O", "O", "T", ">" >>
MetaName == << "<", "M", "E", "T", "A", ">" >>

\* strings.TrimPrefix(s, prefix)
TrimPrefix(s, prefix) ==
    IF Len(s) >= Len(prefix) /\ SubSeq(s, 1, Len(prefix)) = prefix
    THEN SubSeq(s, Len(prefix) + 1, Len(s))
    ELSE s

FAST_IS_SWIFT_LEGACY == 1
FAST_IS_SWIFT_STABLE == 2

\* x & y
RECURSIVE BitAnd(_, _)
BitAnd(x, y) ==
    IF x = 0 \/ y = 0 THEN 0
    ELSE (x % 2) * (y % 2) + 2 * BitAnd(x \div 2, y \div 2)

\* (classPtr.DataVMAddrAndFastFlags&objc.FAST_IS_SWIFT_LEGACY == 1)
IsSwiftLegacy(word) == BitAnd(word, FAST_IS_SWIFT_LEGACY) = 1
\* (classPtr.DataVMAddrAndFastFlags&objc.FAST_IS_SWIFT_STABLE == 1)
IsSwiftStable(word) == BitAnd(word, FAST_IS_SWIFT_STABLE) = 1

\* &objc.Class{} and &objc.Class{Name: name}
EmptyClass ==
    [ Name |-> << >>, SuperClass |-> << >>, Isa |-> << >>, Prots |-> << >>,
      ClassPtr |-> 0, IsSwiftLegacy |-> FALSE, IsSwiftStable |-> FALSE,
      Flags |-> {} ]
NamedClass(name) == [EmptyClass EXCEPT !.Name = name]

\* &objc.Protocol{}
EmptyProtocol == [ Ptr |-> 0, Name |-> << >>, Isa |-> EmptyClass, Prots |-> << >> ]

\* The class structure at an address with its class_ro_t, and the protocol
\* structure at an address.
ClassT(isa, super, word, flags, name, prots) ==
    [ IsaVMAddr |-> isa, SuperclassVMAddr |-> super,
      DataVMAddrAndFastFlags |-> word, Flags |-> flags, Name |-> name,
      BaseProtocolsVMAddr |-> prots ]
ProtocolT(name, isa, prots) ==
    [ Name |-> name, IsaVMAddr |-> isa, ProtocolsVMAddr |-> prots ]

\* f.HasFixups() and the addresses for which f.GetBindName returns a name.
FixupConfigs ==
    { [ hasFixups |-> FALSE, bindNames |-> << >> ],
      [ hasFixups |-> TRUE, bindNames |-> << >> ],
      [ hasFixups |-> TRUE, bindNames |-> (3 :> (ClassPrefix \o << "N", "S" >>)) ],
      [ hasFixups |-> TRUE, bindNames |-> (3 :> << "N", "S" >>) ] }

\* Files with classes at the addresses 1 and 2 and nothing at the address 3.
ClassFiles ==
    { [ made |-> TRUE,
        classes |-> (1 :> ClassT(isa, super, word, flags, << "A" >>, 0))
                    @@ (2 :> ClassT(0, super2, 64, flags2, << "B" >>, 0)),
        lists |-> << >>,
        protocols |-> << >>,
        hasFixups |-> fx.hasFixups,
        bindNames |-> fx.bindNames ] :
        isa \in {0, 2, 3}, super \in {0, 1, 2, 3}, word \in 64..67,
        flags \in SUBSET {"RO_META", "RO_ROOT"},
        super2 \in {0, 1, 3}, flags2 \in {{}, {"RO_META"}},
        fx \in FixupConfigs }

\* Files with a class at the address 1 that adopts the protocol list at 4;
\* protocol lists at 4 and 5, protocols at 6 and 7.
ProtocolFiles ==
    { [ made |-> TRUE,
        classes |-> (1 :> ClassT(0, 0, 64, {}, << "A" >>, 4)),
        lists |-> (4 :> l4) @@ (5 :> << 7 >>),
        protocols |-> (6 :> ProtocolT(<< "P" >>, 0, p6))
                      @@ (7 :> ProtocolT(<< "Q" >>, 0, p7)),
        hasFixups |-> FALSE,
        bindNames |-> << >> ] :
        l4 \in {<< 6 >>, << 6, 7 >>}, p6 \in {0, 3, 4, 5}, p7 \in {0, 4} }

ObjcInit ==
    /\ payload = Payload(TheImportTable, AbsentSeg, AbsentSeg)
    /\ bo = "LittleEndian"
    /\ image = << >>
    /\ Starts = << ZeroStart, ZeroStart >>
    /\ Imports = ParsedImports
    /\ chosen = 0
    /\ startsNil = FALSE
    /\ pc = "done"
    /\ result = "ok"
    /\ segIdx = 3
    /\ pageIndex = 0
    /\ overflowIndex = 0
    /\ chainEnd = FALSE
    /\ inMulti = FALSE
    /\ offsetInPage = 0
    /\ next = 0
    /\ walkEnd = FALSE
    /\ heads = << >>
    /\ lrr = NoReader
    /\ call = NoCall
    /\ routines = NoRoutines
    /\ inits = << >>
    /\ objcFile \in ClassFiles \cup ProtocolFiles
    /\ objc = << >>
    /\ stack = << >>
    /\ returned = NoRet

objcFrame == << dcfVars, lrr, call, routines, inits, objcFile >>

ClassFrame(vmaddr) ==
    [ fn |-> "GetObjCClass", vmaddr |-> vmaddr, pc |-> "enter", prots |-> << >>,
      superClass |-> EmptyClass, isaClass |-> EmptyClass ]
ListFrame(vmaddr) ==
    [ fn |-> "parseObjcProtocolList", vmaddr |-> vmaddr, pc |-> "enter", i |-> 1,
      protocols |-> << >> ]
ProtocolFrame(vmaddr) ==
    [ fn |-> "getObjcProtocol", vmaddr |-> vmaddr, pc |-> "enter",
      proto |-> EmptyProtocol ]

\* The call that is running, and the stack with its frame replaced.
Top == stack[Len(stack)]
SetTop(frame) == [stack EXCEPT ![Len(stack)] = frame]
At(fn, at) == stack # << >> /\ Top.fn = fn /\ Top.pc = at

\* The running call goes on at the position at.
Goto(at) ==
    /\ stack' = SetTop([Top EXCEPT !.pc = at])
    /\ returned' = NoRet

\* The running call returns val, err.
Return(val, err) ==
    /\ stack' = SubSeq(stack, 1, Len(stack) - 1)
    /\ returned' = [ from |-> Top.fn, vmaddr |-> Top.vmaddr, val |-> val,
                     err |-> err ]

\* The running call calls callee and will go on at the position at.  The stack
\* cannot grow without end: the runtime ends the program.
CallFrom(at, callee) ==
    IF Len(stack) >= MaxDepth
    THEN /\ stack' = << >>
         /\ returned' = [ from |-> "runtime", vmaddr |-> callee.vmaddr,
                          val |-> EmptyClass, err |-> "fatal error: stack overflow" ]
    ELSE /\ stack' = Append(SetTop([Top EXCEPT !.pc = at]), callee)
         /\ returned' = NoRet

\* f.GetObjCClass(1), called on a file of which nothing has been parsed.
CallGetObjCClass ==
    /\ objcFile.made
    /\ stack = << >>
    /\ returned = NoRet
    /\ stack' = << ClassFrame(1) >>
    /\ UNCHANGED << objcFrame, objc, returned >>

\* GetObjCClass up to the read of the class and of its class_ro_t.
ClassBegin ==
    /\ At("GetObjCClass", "enter")
    /\ IF Top.vmaddr \in DOMAIN objc
         THEN Return(objc[Top.vmaddr], "")
       ELSE IF Top.vmaddr \notin DOMAIN objcFile.classes
         THEN Return(EmptyClass, "failed to convert vmaddr")
       ELSE Goto("prots")
    /\ UNCHANGED << objcFrame, objc >>

\* if info.BaseProtocolsVMAddr > 0 { prots, err = f.parseObjcProtocolList(...)
ClassProtocols ==
    /\ At("GetObjCClass", "prots")
    /\ LET info == objcFile.classes[Top.vmaddr]
       IN  IF info.BaseProtocolsVMAddr > 0
           THEN CallFrom("protsRet", ListFrame(info.BaseProtocolsVMAddr))
           ELSE Goto("super")
    /\ UNCHANGED << objcFrame, objc >>

ClassProtocolsReturn ==
    /\ At("GetObjCClass", "protsRet")
    /\ returned # NoRet
    /\ IF returned.err # ""
         THEN Return(EmptyClass, "failed to read protocols vmaddr")
       ELSE /\ stack' = SetTop([Top EXCEPT !.prots = returned.val, !.pc = "super"])
            /\ returned' = NoRet
    /\ UNCHANGED << objcFrame, objc >>

\* superClass := &objc.Class{}; if classPtr.SuperclassVMAddr > 0 { ...
ClassSuper ==
    /\ At("GetObjCClass", "super")
    /\ LET classPtr == objcFile.classes[Top.vmaddr]
           super == classPtr.SuperclassVMAddr
           with(c) == /\ stack' = SetTop([Top EXCEPT !.superClass = c, !.pc = "isa"])
                      /\ returned' = NoRet
       IN  IF super > 0
           THEN IF "RO_ROOT" \in classPtr.Flags THEN with(NamedClass(RootName))
                ELSE IF "RO_META" \in classPtr.Flags THEN with(NamedClass(MetaName))
                ELSE IF super \in DOMAIN objc THEN with(objc[super])
                ELSE CallFrom("superRet", ClassFrame(super))
           ELSE with(EmptyClass)
    /\ UNCHANGED << objcFrame, objc >>

\* superClass, err = f.GetObjCClass(classPtr.SuperclassVMAddr) has returned.
ClassSuperReturn ==
    /\ At("GetObjCClass", "superRet")
    /\ returned # NoRet
    /\ LET super == objcFile.classes[Top.vmaddr].SuperclassVMAddr
           superClass ==
               IF returned.err = "" THEN returned.val
               ELSE IF objcFile.hasFixups
                 THEN NamedClass(TrimPrefix(objcFile.bindNames[super], ClassPrefix))
               ELSE EmptyClass
       IN  IF /\ returned.err # ""
              /\ objcFile.hasFixups
              /\ super \notin DOMAIN objcFile.bindNames
           THEN /\ Return(EmptyClass, "failed to read super class objc_class_t")
                /\ UNCHANGED objc
           ELSE /\ objc' = (super :> superClass) @@ objc
                /\ stack' = SetTop([Top EXCEPT !.superClass = superClass,
                                               !.pc = "isa"])
                /\ returned' = NoRet
    /\ UNCHANGED objcFrame

\* isaClass := &objc.Class{}; if classPtr.IsaVMAddr > 0 { ...
ClassIsa ==
    /\ At("GetObjCClass", "isa")
    /\ LET classPtr == objcFile.classes[Top.vmaddr]
           isa == classPtr.IsaVMAddr
       IN  IF isa > 0 /\ "RO_META" \notin classPtr.Flags
           THEN IF isa \in DOMAIN objc
                THEN /\ stack' = SetTop([Top EXCEPT !.isaClass = objc[isa],
                                                    !.pc = "return"])
                     /\ returned' = NoRet
                ELSE CallFrom("isaRet", ClassFrame(isa))
           ELSE Goto("return")
    /\ UNCHANGED << objcFrame, objc >>

\* isaClass, err = f.GetObjCClass(classPtr.IsaVMAddr) has returned.
ClassIsaReturn ==
    /\ At("GetObjCClass", "isaRet")
    /\ returned # NoRet
    /\ LET isa == objcFile.classes[Top.vmaddr].IsaVMAddr
           isaClass ==
               IF returned.err = "" THEN returned.val
               ELSE IF objcFile.hasFixups
                 THEN NamedClass(TrimPrefix(objcFile.bindNames[isa], ClassPrefix))
               ELSE EmptyClass
       IN  IF /\ returned.err # ""
              /\ objcFile.hasFixups
              /\ isa \notin DOMAIN objcFile.bindNames
           THEN /\ Return(EmptyClass, "failed to read super class objc_class_t")
                /\ UNCHANGED objc
           ELSE /\ objc' = (isa :> isaClass) @@ objc
                /\ stack' = SetTop([Top EXCEPT !.isaClass = isaClass,
                                               !.pc = "return"])
                /\ returned' = NoRet
    /\ UNCHANGED objcFrame

\* return &objc.Class{...}, nil
ClassReturn ==
    /\ At("GetObjCClass", "return")
    /\ LET classPtr == objcFile.classes[Top.vmaddr]
       IN  Return([ Name |-> classPtr.Name,
                    SuperClass |-> Top.superClass.Name,
                    Isa |-> Top.isaClass.Name,
                    Prots |-> Top.prots,
                    ClassPtr |-> Top.vmaddr,
                    IsSwiftLegacy |-> IsSwiftLegacy(classPtr.DataVMAddrAndFastFlags),
                    IsSwiftStable |-> IsSwiftStable(classPtr.DataVMAddrAndFastFlags),
                    Flags |-> classPtr.Flags ], "")
    /\ UNCHANGED << objcFrame, objc >>

\* parseObjcProtocolList up to the loop over the protocols of the list.
ListBegin ==
    /\ At("parseObjcProtocolList", "enter")
    /\ IF Top.vmaddr \notin DOMAIN objcFile.lists
         THEN Return(<< >>, "failed to convert vmaddr")
       ELSE Goto("loop")
    /\ UNCHANGED << objcFrame, objc >>

\* for i, protPtr := range protList.Protocols { prot, err := f.getObjcProtocol(
ListNext ==
    /\ At("parseObjcProtocolList", "loop")
    /\ LET protList == objcFile.lists[Top.vmaddr]
       IN  IF Top.i <= Len(protList)
           THEN CallFrom("protoRet", ProtocolFrame(protList[Top.i]))
           ELSE Return(Top.protocols, "")
    /\ UNCHANGED << objcFrame, objc >>

ListProtocolReturn ==
    /\ At("parseObjcProtocolList", "protoRet")
    /\ returned # NoRet
    /\ IF returned.err # ""
         THEN Return(<< >>, returned.err)
       ELSE /\ stack' = SetTop([Top EXCEPT !.protocols = Append(@, returned.val),
                                           !.i = @ + 1, !.pc = "loop"])
            /\ returned' = NoRet
    /\ UNCHANGED << objcFrame, objc >>

\* getObjcProtocol up to the protocols the protocol adopts.
ProtocolBegin ==
    /\ At("getObjcProtocol", "enter")
    /\ IF Top.vmaddr \notin DOMAIN objcFile.protocols
         THEN Return(EmptyProtocol, "failed to convert vmaddr")
       ELSE LET protoPtr == objcFile.protocols[Top.vmaddr]
            IN  /\ stack' = SetTop([Top EXCEPT
                           !.proto = [ Ptr |-> Top.vmaddr,
                                       Name |-> protoPtr.Name,
                                       Isa |-> IF protoPtr.IsaVMAddr \in DOMAIN objc
                                               THEN objc[protoPtr.IsaVMAddr]
                                               ELSE EmptyClass,
                                       Prots |-> << >> ],
                           !.pc = "prots"])
                /\ returned' = NoRet
    /\ UNCHANGED << objcFrame, objc >>

\* if protoPtr.ProtocolsVMAddr > 0 { proto.Prots, err = f.parseObjcProtocolList(
ProtocolProtocols ==
    /\ At("getObjcProtocol", "prots")
    /\ LET protoPtr == objcFile.protocols[Top.vmaddr]
       IN  IF protoPtr.ProtocolsVMAddr > 0
           THEN CallFrom("protsRet", ListFrame(protoPtr.ProtocolsVMAddr))
           ELSE Return(Top.proto, "")
    /\ UNCHANGED << objcFrame, objc >>

ProtocolProtocolsReturn ==
    /\ At("getObjcProtocol", "protsRet")
    /\ returned # NoRet
    /\ IF returned.err # ""
         THEN Return(EmptyProtocol, "failed to read protocols vmaddr")
       ELSE Return([Top.proto EXCEPT !.Prots = returned.val], "")
    /\ UNCHANGED << objcFrame, objc >>

ObjcNext ==
    \/ CallGetObjCClass
    \/ ClassBegin
    \/ ClassProtocols
    \/ ClassProtocolsReturn
    \/ ClassSuper
    \/ ClassSuperReturn
    \/ ClassIsa
    \/ ClassIsaReturn
    \/ ClassReturn
    \/ ListBegin
    \/ ListNext
    \/ ListProtocolReturn
    \/ ProtocolBegin
    \/ ProtocolProtocols
    \/ ProtocolProtocolsReturn

ObjcSpec == ObjcInit /\ [][ObjcNext]_vars

\* GetObjCClass(1) has returned a class and a nil error.
TopLevelClass ==
    /\ stack = << >>
    /\ returned.from = "GetObjCClass"
    /\ returned.err = ""

(***************************************************************************)
(* C22.  The SuperClass of the class that GetObjCClass returns: <ROOT> for *)
(* a root class and <META> for a metaclass; for another class whose        *)
(* superclass pointer leads to no readable class, the bind name of that    *)
(* pointer without the prefix _OBJC_CLASS_$_ if the file has fixups (and   *)
(* an error if it has no bind name), and the empty string with a nil error *)
(* if the file has no fixups.  The code names <ROOT> and <META> only under *)
(* `if classPtr.SuperclassVMAddr > 0`: a root class whose superclass       *)
(* pointer is nil reports the empty string.                                *)
(***************************************************************************)
C22_SuperClassName ==
    (stack = << >> /\ returned.from = "GetObjCClass") =>
        LET classPtr == objcFile.classes[returned.vmaddr]
            super == classPtr.SuperclassVMAddr
            isRoot == "RO_ROOT" \in classPtr.Flags
            isMeta == "RO_META" \in classPtr.Flags
            unreadable == /\ ~isRoot
                          /\ ~isMeta
                          /\ super > 0
                          /\ super \notin DOMAIN objcFile.classes
        IN  /\ (returned.err = "" /\ isRoot)
                => returned.val.SuperClass = RootName
            /\ (returned.err = "" /\ isMeta /\ ~isRoot)
                => returned.val.SuperClass = MetaName
            /\ (returned.err = "" /\ unreadable /\ objcFile.hasFixups)
                => /\ super \in DOMAIN objcFile.bindNames
                   /\ returned.val.SuperClass =
                          TrimPrefix(objcFile.bindNames[super], ClassPrefix)
            /\ (unreadable /\ objcFile.hasFixups
                    /\ super \notin DOMAIN objcFile.bindNames)
                => returned.err # ""
            /\ (unreadable /\ ~objcFile.hasFixups)
                => /\ returned.err = ""
                   /\ returned.val.SuperClass = << >>

(***************************************************************************)
(* C29.  In the class that GetObjCClass returns, IsSwiftStable is true     *)
(* exactly if bit 0x2 of DataVMAddrAndFastFlags is set, and IsSwiftLegacy  *)
(* exactly if bit 0x1 is.  The code compares word & 0x2 with 1, which it   *)
(* never equals.                                                           *)
(***************************************************************************)
C29_SwiftFlagsFollowBits ==
    TopLevelClass =>
        LET word == objcFile.classes[returned.vmaddr].DataVMAddrAndFastFlags
        IN  /\ returned.val.IsSwiftStable = ((word \div 2) % 2 = 1)
            /\ returned.val.IsSwiftLegacy = (word % 2 = 1)

(***************************************************************************)
(* C30.  GetObjCClass and the protocol walkers end: no function is running *)
(* twice on one address within a top-level call, and the stack does not    *)
(* outgrow its limit.  The code records a class in f.objc only after the   *)
(* call for it has returned and keeps no record of the protocol lists, so  *)
(* a cycle of superclass or isa pointers, or of protocol lists, is walked  *)
(* again and again.                                                        *)
(***************************************************************************)
C30_WalkersTerminate ==
    /\ \A i, j \in 1..Len(stack) :
          (stack[i].fn = stack[j].fn /\ stack[i].vmaddr = stack[j].vmaddr) => i = j
    /\ returned.from # "runtime"

=============================================================================
